---- MODULE Spec2Model ----
(***************************************************************************)
(* Model of the Loreline native bridge (linc_Loreline.cpp): the thread     *)
(* affinity guard, the worker thread and its FIFO, the call scheduler, the *)
(* dispatch-out queue and the per-interpreter pending continuation.        *)
(*                                                                         *)
(* The program state is gathered in one record (St) so that the bridge's   *)
(* sequential code can be composed as functions from state to state: a     *)
(* boundary call is its prelude on the calling thread followed by the      *)
(* scheduler, which either runs the call's lambda inline or appends it to  *)
(* the worker's queue.                                                     *)
(***************************************************************************)
EXTENDS Integers, Sequences, FiniteSets, TLC

VARIABLES
    didCallHaxeMain,       \* linc_Loreline_didCallHaxeMain
    useInternalThread,     \* linc_Loreline_useInternalThread
    haxeThreadId,          \* linc_Loreline_haxeThreadId
    thread,                \* linc_Loreline_thread (Null or the worker object)
    stopFlag,              \* Loreline_Thread::stopFlag, per worker object
    taskQueue,             \* Loreline_Thread::taskQueue, per worker object
    wpc,                   \* where each worker thread is in threadLoop
    wtask,                 \* the task a worker has taken from its queue
    dispatchOutFunctions,  \* linc_Loreline_dispatchOutFunctions.functionQueue
    s_dispatchInterp,      \* s_dispatchInterp
    gcAccum,               \* linc_Loreline_gcAccum
    script,                \* the Loreline_Script handle
    interp,                \* the Loreline_Interpreter handles
    engine,                \* the engine's interpreter objects
    roots,                 \* the collector's root set (hx::GCAddRoot): the
                           \* addresses of the handle fields registered
    stack,                 \* each host thread's call stack inside the bridge
    calls,                 \* number of boundary calls made so far
    fatal,                 \* Null, or why the process was terminated
    onWorker,              \* history: a host handler ran on a worker thread
    nextId,                \* history: number of tasks appended so far, plus 1
    execLog,               \* history: the tasks each worker has started
    doneCount,             \* history: how many tasks each worker has ended
    initCount,             \* history: how many times hxRunLibrary has run
    sessState,             \* history: the playback state of each session
    hist,                  \* history: per-session handler and run counters
    atStop,                \* history: ids queued when a stop flag was set
    unguarded,             \* history: handle accesses made outside the guard
    hostHas,               \* history: continuation pointers the host was
                           \* given, and the handles it has released
    outcome,               \* history: how the latest boundary call ended
    result,                \* the value the latest blocking call returned
    arrays,                \* the Loreline_TextTag[] and Loreline_ChoiceOption[]
                           \* arrays now allocated (new[] without delete[])
    memFault,              \* history: Null, or the first misuse of an array
    strPtr,                \* Loreline_String::ptr of each string object
    refCount,              \* Loreline_StringData::refCount of each buffer
    bufState,              \* whether each buffer is allocated (malloc/free)
    strPc,                 \* the copy-assignment each thread is in, if any
    s_pendingFileProvide,  \* s_pendingFileProvide
    fileStack,             \* the call stack of the thread that runs a parse
                           \* with a file handler
    fileRequested,         \* history: the file requests the engine has made
    fileProvided,          \* history: the requests whose content the host
                           \* has passed to provide
    fileDelivered,         \* history: the contents each request's engine
                           \* continuation has been run with
    hxList,                \* the engine's Array<TextTag> or
                           \* Array<ChoiceOption> handed to a build helper
    built                  \* the helper's outputs (*outTags / *outOptions
                           \* and *outCount), once it has returned

vars == << didCallHaxeMain, useInternalThread, haxeThreadId, thread, stopFlag,
           taskQueue, wpc, wtask, dispatchOutFunctions, s_dispatchInterp,
           gcAccum, script, interp, engine, roots, stack, calls, fatal, onWorker,
           nextId, execLog, doneCount, initCount, sessState, hist, atStop,
           unguarded, hostHas, outcome, result, arrays, memFault,
           strPtr, refCount, bufState, strPc,
           s_pendingFileProvide, fileStack, fileRequested, fileProvided,
           fileDelivered, hxList, built >>

\* The variables of the bridge proper, and those of the string values.
bridgeVars ==
    << didCallHaxeMain, useInternalThread, haxeThreadId, thread, stopFlag,
       taskQueue, wpc, wtask, dispatchOutFunctions, s_dispatchInterp,
       gcAccum, script, interp, engine, roots, stack, calls, fatal, onWorker,
       nextId, execLog, doneCount, initCount, sessState, hist, atStop,
       unguarded, hostHas, outcome, result, arrays, memFault >>

stringVars == << strPtr, refCount, bufState, strPc >>

fileVars ==
    << s_pendingFileProvide, fileStack, fileRequested, fileProvided,
       fileDelivered >>

buildVars == << hxList, built >>

(***************************************************************************)
(* Bounds and sets of the model.                                           *)
(***************************************************************************)
MaxCalls == 5

Null == "null"

\* The host application's threads.
Hosts == {"T1", "T2"}

\* The operating-system threads successive Loreline_Thread objects run on.
WorkerIds == <<"W1", "W2">>

Workers == {WorkerIds[i] : i \in DOMAIN WorkerIds}

\* Addresses `new Loreline_Interpreter()` can return.
Handles == {"h1"}

\* The deltas the host passes to Loreline_update.
Deltas == {10}

GcThreshold == 15

\* The string objects of each thread, and the buffers they can point to. A
\* string object is dead before its constructor and after its destructor.
StrSlots == Hosts \X {1, 2}

Buffers == {"b1", "b2"}

Dead == "dead"

\* strPc of a thread that is not inside operator=(const Loreline_String&).
NoAssign == << >>

\* The file requests (imports) the engine can make during one parse, numbered
\* in the order they are made.
MaxFiles == 3

FileRequests == 1..MaxFiles

\* A null s_pendingFileProvide.
NoRequest == 0

(***************************************************************************)
(* The engine, which is outside the bridge: a script is a sequence of      *)
(* nodes, each raising one event; a beat names a node to start from; a     *)
(* continuation resumes after the node that raised it; a snapshot is the   *)
(* node the interpreter is at.                                             *)
(***************************************************************************)
ScriptNodes == <<"dialogue", "choice", "finish">>

Positions == DOMAIN ScriptNodes

\* The beat names of the script the host passes: none, or a named beat.
Beats == {Null, "ending"}

\* A beat name the script does not have.
MissingBeat == "missing"

\* What the host passes to Loreline_play: a beat name, and handlers or none.
PlayInputs == {<< Null, TRUE >>, << "ending", TRUE >>, << Null, FALSE >>}

BeatPos(beat) == IF beat = Null THEN 1 ELSE Len(ScriptNodes)

\* What the engine's parser does with the host's input: a script, no script,
\* or a parse error.
ParseAnswers == {"ok", "null", "throws"}

\* Snapshot texts the host passes to restore: the snapshots of the script's
\* nodes, and a text that is not a snapshot, which the decoder rejects.
BadSnapshot == Len(ScriptNodes) + 1

SnapshotTexts == Positions \cup {BadSnapshot}

ContinuationTarget(pos, index) ==
    IF pos + 1 <= Len(ScriptNodes) THEN pos + 1 ELSE Len(ScriptNodes)

\* The choice node offers OptionCount options; the host may pass any int to
\* select, of which the two valid indexes and the two nearest invalid ones are
\* kept. What the engine itself does with an index is outside the bridge.
OptionCount == 2

SelectIndexes == (0 - 1)..OptionCount

StateAfterEvent(kind) ==
    CASE kind = "dialogue" -> "AwaitingAdvance"
      [] kind = "choice" -> "AwaitingChoice"
      [] OTHER -> "Finished"

(***************************************************************************)
(* The state as one record.                                                *)
(***************************************************************************)
St ==
    [ didCallHaxeMain |-> didCallHaxeMain,
      useInternalThread |-> useInternalThread,
      haxeThreadId |-> haxeThreadId,
      thread |-> thread,
      stopFlag |-> stopFlag,
      taskQueue |-> taskQueue,
      wpc |-> wpc,
      wtask |-> wtask,
      dispatchOutFunctions |-> dispatchOutFunctions,
      s_dispatchInterp |-> s_dispatchInterp,
      gcAccum |-> gcAccum,
      script |-> script,
      interp |-> interp,
      engine |-> engine,
      roots |-> roots,
      stack |-> stack,
      calls |-> calls,
      fatal |-> fatal,
      onWorker |-> onWorker,
      nextId |-> nextId,
      execLog |-> execLog,
      doneCount |-> doneCount,
      initCount |-> initCount,
      sessState |-> sessState,
      hist |-> hist,
      atStop |-> atStop,
      unguarded |-> unguarded,
      hostHas |-> hostHas,
      outcome |-> outcome,
      result |-> result,
      arrays |-> arrays,
      memFault |-> memFault ]

Commit(R) ==
    /\ didCallHaxeMain' = R.didCallHaxeMain
    /\ useInternalThread' = R.useInternalThread
    /\ haxeThreadId' = R.haxeThreadId
    /\ thread' = R.thread
    /\ stopFlag' = R.stopFlag
    /\ taskQueue' = R.taskQueue
    /\ wpc' = R.wpc
    /\ wtask' = R.wtask
    /\ dispatchOutFunctions' = R.dispatchOutFunctions
    /\ s_dispatchInterp' = R.s_dispatchInterp
    /\ gcAccum' = R.gcAccum
    /\ script' = R.script
    /\ interp' = R.interp
    /\ engine' = R.engine
    /\ roots' = R.roots
    /\ stack' = R.stack
    /\ calls' = R.calls
    /\ fatal' = R.fatal
    /\ onWorker' = R.onWorker
    /\ nextId' = R.nextId
    /\ execLog' = R.execLog
    /\ doneCount' = R.doneCount
    /\ initCount' = R.initCount
    /\ sessState' = R.sessState
    /\ hist' = R.hist
    /\ atStop' = R.atStop
    /\ unguarded' = R.unguarded
    /\ hostHas' = R.hostHas
    /\ outcome' = R.outcome
    /\ result' = R.result
    /\ arrays' = R.arrays
    /\ memFault' = R.memFault
    /\ UNCHANGED stringVars
    /\ UNCHANGED fileVars
    /\ UNCHANGED buildVars

\* A lambda given to the scheduler: the call it belongs to and its captures
\* (pos is a snapshot or a continuation, 0 when absent; index is NoIndex when
\* the continuation takes no argument).
NoIndex == -2

NoTask ==
    [id |-> 0, op |-> "none", h |-> Null, arg |-> Null, pos |-> 0,
     index |-> NoIndex, sync |-> Null]

Task(op, h, arg) == [NoTask EXCEPT !.op = op, !.h = h, !.arg = arg]

\* A continuation is named by the node that raised it; 0 is the null pointer.
NoCb == 0

NoInterp ==
    [alloc |-> "none", obj |-> Null, pendingCb |-> NoCb, handlers |-> FALSE]

\* A default-constructed Loreline_String or Loreline_Value.
NoResult == 0

NoHist ==
    [handlers |-> 0, gap |-> 1, ran |-> FALSE, onlyCont |-> TRUE,
     roundTrip |-> FALSE]

\* No string object exists.
NoStrings ==
    /\ strPtr = [o \in StrSlots |-> Dead]
    /\ refCount = [b \in Buffers |-> 0]
    /\ bufState = [b \in Buffers |-> "none"]
    /\ strPc = [t \in Hosts |-> NoAssign]

BridgeInit ==
    /\ didCallHaxeMain = FALSE
    /\ useInternalThread = FALSE
    /\ haxeThreadId = Null
    /\ thread = Null
    /\ stopFlag = [w \in Workers |-> FALSE]
    /\ taskQueue = [w \in Workers |-> << >>]
    /\ wpc = [w \in Workers |-> "unborn"]
    /\ wtask = [w \in Workers |-> NoTask]
    /\ dispatchOutFunctions = << >>
    /\ s_dispatchInterp = Null
    /\ gcAccum = 0
    /\ script = [alloc |-> "none", obj |-> Null]
    /\ interp = [h \in Handles |-> NoInterp]
    /\ engine = [h \in Handles |-> 0]
    /\ roots = {}
    /\ stack = [t \in Hosts |-> << >>]
    /\ calls = 0
    /\ fatal = Null
    /\ onWorker = FALSE
    /\ nextId = 1
    /\ execLog = [w \in Workers |-> << >>]
    /\ doneCount = [w \in Workers |-> 0]
    /\ initCount = 0
    /\ sessState = [h \in Handles |-> "None"]
    /\ hist = [h \in Handles |-> NoHist]
    /\ atStop = [w \in Workers |-> {}]
    /\ unguarded = {}
    /\ hostHas = {}
    /\ outcome = "none"
    /\ result = NoResult
    /\ arrays = {}
    /\ memFault = Null

\* No parse with a file handler has been started.
NoFiles ==
    /\ s_pendingFileProvide = NoRequest
    /\ fileStack = << >>
    /\ fileRequested = 0
    /\ fileProvided = {}
    /\ fileDelivered = [r \in FileRequests |-> << >>]

\* No build helper is being looked at.
NoBuild ==
    /\ hxList = Null
    /\ built = Null

Init == BridgeInit /\ NoStrings /\ NoFiles /\ NoBuild

(***************************************************************************)
(* Call stacks.                                                            *)
(***************************************************************************)
Top(s) == s[Len(s)]

Pop(s) == SubSeq(s, 1, Len(s) - 1)

TopIs(S, t, k) == Len(S.stack[t]) > 0 /\ Top(S.stack[t]).k = k

PushFrame(S, t, f) == [S EXCEPT !.stack[t] = Append(@, f)]

PopFrame(S, t) == [S EXCEPT !.stack[t] = Pop(@)]

(***************************************************************************)
(* Handles and GC roots.                                                   *)
(***************************************************************************)
\* Loreline_Interpreter::set
Interpreter_set(S, h, o) ==
    [S EXCEPT !.interp[h].obj = o,
              !.roots = IF o # Null THEN @ \cup {<<h, "obj">>} ELSE @]

\* Mutant of Interpreter_setPendingCallback: the new continuation is stored
\* without being registered as a root.
setPendingCallback_NoAdd(S, h, cb) ==
    [S EXCEPT !.interp[h].pendingCb = cb,
              !.roots = IF S.interp[h].pendingCb # NoCb
                        THEN @ \ {<<h, "pendingCb">>} ELSE @]

\* Loreline_Interpreter::setPendingCallback
Interpreter_setPendingCallback(S, h, cb) ==
    LET removed == IF S.interp[h].pendingCb # NoCb
                   THEN S.roots \ {<<h, "pendingCb">>} ELSE S.roots
    IN [S EXCEPT !.interp[h].pendingCb = cb,
                 !.roots = IF cb # NoCb THEN removed \cup {<<h, "pendingCb">>}
                           ELSE removed]

\* Loreline_Script::set
Script_set(S, o) ==
    [S EXCEPT !.script = [alloc |-> "live", obj |-> o],
              !.roots = IF o # Null THEN @ \cup {<<"script", "obj">>} ELSE @]

\* `delete interp` on a live handle: ~Loreline_Interpreter, then the memory is
\* given back.
Interpreter_delete(S, h) ==
    [S EXCEPT !.interp[h] = [alloc |-> "freed", obj |-> Null,
                             pendingCb |-> NoCb,
                             handlers |-> S.interp[h].handlers],
              !.roots = (@ \ (IF S.interp[h].pendingCb # NoCb
                              THEN {<<h, "pendingCb">>} ELSE {}))
                          \ (IF S.interp[h].obj # Null
                             THEN {<<h, "obj">>} ELSE {})]

\* `delete script` on a live handle: ~Loreline_Script.
Script_delete(S) ==
    [S EXCEPT !.script = [alloc |-> "freed", obj |-> Null],
              !.roots = @ \ (IF S.script.obj # Null
                             THEN {<<"script", "obj">>} ELSE {})]

\* `delete` of memory that was already given back is undefined: the allocator
\* aborts the process, or the heap is silently damaged (ub says which).
DoubleFree(S, ub) ==
    IF ub = "crash" THEN [S EXCEPT !.fatal = "double_free"] ELSE S

(***************************************************************************)
(* The arrays built for an event. A block of `arrays` is one new[]: its    *)
(* address and, for a Loreline_ChoiceOption[], the tags pointer of each    *)
(* option (NullArray is nullptr). The allocator gives the lowest free      *)
(* address.                                                                *)
(***************************************************************************)
NullArray == 0

\* Which options of the choice node carry text tags.
OptionTagCounts == <<1, 0>>

LiveArrays(S) == {b.id : b \in S.arrays}

NewArray(S) ==
    CHOOSE n \in 1..(Cardinality(S.arrays) + 1) :
        /\ n \notin LiveArrays(S)
        /\ \A k \in 1..(n - 1) : k \in LiveArrays(S)

ArrayAt(S, a) == CHOOSE b \in S.arrays : b.id = a

\* `new T[count]` at address a.
AllocArray(S, a, tags) ==
    [S EXCEPT !.arrays = @ \cup {[id |-> a, tags |-> tags]}]

\* `delete[] p`: nothing for nullptr; a second delete[] is recorded.
DeleteArray(S, a) ==
    IF a = NullArray THEN S
    ELSE IF a \in LiveArrays(S)
    THEN [S EXCEPT !.arrays = {b \in @ : b.id # a}]
    ELSE [S EXCEPT !.memFault = IF @ = Null THEN "double_free" ELSE @]

\* linc_buildTextTags: the array's address, nullptr when there is no tag.
linc_buildTextTags(S, count) ==
    IF count = 0 THEN S ELSE AllocArray(S, NewArray(S), << >>)

BuiltTextTags(S, count) == IF count = 0 THEN NullArray ELSE NewArray(S)

\* linc_buildChoiceOptions, the loop from option i on: options[i].tags is
\* built and stored.
RECURSIVE BuildOptionTags(_, _, _)
BuildOptionTags(S, options, i) ==
    IF i > Len(OptionTagCounts) THEN S
    ELSE LET t == BuiltTextTags(S, OptionTagCounts[i])
             S1 == linc_buildTextTags(S, OptionTagCounts[i])
             o == ArrayAt(S1, options)
             S2 == [S1 EXCEPT !.arrays =
                       (@ \ {o}) \cup {[o EXCEPT !.tags = Append(@, t)]}]
         IN BuildOptionTags(S2, options, i + 1)

\* linc_buildChoiceOptions
linc_buildChoiceOptions(S) ==
    BuildOptionTags(AllocArray(S, NewArray(S), << >>), NewArray(S), 1)

\* Reading options[i].tags: from a deleted array the read is recorded.
OptionTags(S, options, i) ==
    IF options \in LiveArrays(S) THEN ArrayAt(S, options).tags[i]
    ELSE NullArray

ReadOption(S, options) ==
    IF options \in LiveArrays(S) THEN S
    ELSE [S EXCEPT !.memFault = IF @ = Null THEN "use_after_free" ELSE @]

\* The loop of linc_freeChoiceOptions from option i on.
RECURSIVE FreeOptionTags(_, _, _)
FreeOptionTags(S, options, i) ==
    IF i > Len(OptionTagCounts) THEN S
    ELSE FreeOptionTags(DeleteArray(ReadOption(S, options),
                                    OptionTags(S, options, i)),
                        options, i + 1)

\* Mutant of linc_freeChoiceOptions: the outer array is deleted first.
freeChoiceOptions_OuterFirst(S, options) ==
    IF options = NullArray THEN S
    ELSE FreeOptionTags(DeleteArray(S, options), options, 1)

\* linc_freeChoiceOptions
linc_freeChoiceOptions(S, options) ==
    IF options = NullArray THEN S
    ELSE DeleteArray(FreeOptionTags(S, options, 1), options)

\* The arrays the closure of an event of this kind builds, and their address.
BuildEventArrays(S, kind) ==
    CASE kind = "dialogue" -> linc_buildTextTags(S, 1)
      [] kind = "choice" -> linc_buildChoiceOptions(S)
      [] OTHER -> S

BuiltEventArrays(S, kind) ==
    IF kind = "finish" THEN NullArray ELSE NewArray(S)

\* What the dispatched lambda does after the handler call: `delete[] tags`,
\* linc_freeChoiceOptions(options, optionCount).
FreeEventArrays(S, ev) ==
    CASE ev.kind = "dialogue" -> DeleteArray(S, ev.arr)
      [] ev.kind = "choice" -> linc_freeChoiceOptions(S, ev.arr)
      [] OTHER -> S

(***************************************************************************)
(* Events: from the engine's callback closures to the host's handlers.     *)
(***************************************************************************)
\* linc_ensureInterpHandle: the engine object of handle h is named h.
linc_ensureInterpHandle(S, h, o) ==
    IF S.interp[h].obj = Null /\ o # Null THEN Interpreter_set(S, h, o) ELSE S

\* What a call's lambda still does once the engine has returned to it.
AfterEngine(S, h, after) ==
    IF after = "set" THEN Interpreter_set(S, h, h) ELSE S

\* The body of a dispatched-out lambda, run by thread x: the host's handler is
\* entered (and, on a host thread, stays on the stack until it returns).
\* The end of a dispatched-out lambda, after the handler call if any, and
\* then of the call that raised the event inline.
LambdaEnd(S, ev, after) == AfterEngine(FreeEventArrays(S, ev), ev.h, after)

Deliver(S, x, ev, after) ==
    LET S1 == IF ev.kind = "finish" THEN S
              ELSE [S EXCEPT !.s_dispatchInterp = ev.h]
        S2 == [S1 EXCEPT
                 !.hist[ev.h].handlers = @ + 1,
                 !.hostHas = CASE ev.kind = "dialogue" -> @ \cup {"advance"}
                               [] ev.kind = "choice" -> @ \cup {"select"}
                               [] OTHER -> @]
    IN IF ~S.interp[ev.h].handlers THEN LambdaEnd(S1, ev, after)
       ELSE IF x \in Hosts
       THEN PushFrame(S2, x, [k |-> "handler", ev |-> ev, after |-> after])
       ELSE LambdaEnd([S2 EXCEPT !.onWorker = TRUE], ev, after)

\* Mutant of linc_Loreline_dispatchOut: every event is buffered.
dispatchOut_AlwaysAdd(S, x, ev, after) ==
    AfterEngine([S EXCEPT !.dispatchOutFunctions = Append(@, ev)], ev.h, after)

\* Mutant of linc_Loreline_dispatchOut: the test of useInternalThread is lost.
dispatchOut_AlwaysInline(S, x, ev, after) == Deliver(S, x, ev, after)

\* linc_Loreline_dispatchOut
linc_Loreline_dispatchOut(S, x, ev, after) ==
    IF S.useInternalThread
    THEN AfterEngine([S EXCEPT !.dispatchOutFunctions = Append(@, ev)],
                     ev.h, after)
    ELSE Deliver(S, x, ev, after)

\* _hx_Closure_dialogue / _hx_Closure_choice / _hx_Closure_finish, called by
\* the engine on thread x with the event of script node pos.
EventClosure(S, x, h, pos, after) ==
    LET kind == ScriptNodes[pos]
        S1 == linc_ensureInterpHandle(S, h, h)
        S2 == IF kind = "finish" THEN S1
              ELSE Interpreter_setPendingCallback(S1, h, pos)
        S3 == BuildEventArrays(S2, kind)
        ev == [h |-> h, kind |-> kind, pos |-> pos,
               deferred |-> S.useInternalThread,
               arr |-> BuiltEventArrays(S2, kind)]
    IN linc_Loreline_dispatchOut(S3, x, ev, after)

\* The engine moves interpreter h to node pos and raises that node's event.
EngineRun(S, x, h, pos, after) ==
    EventClosure([S EXCEPT !.engine[h] = pos,
                           !.sessState[h] = StateAfterEvent(ScriptNodes[pos])],
                 x, h, pos, after)

\* An exception that leaves a lambda: the host catches it on its own thread,
\* on the worker thread nothing does and the process terminates.
Throw(S, x, what) ==
    IF x \in Hosts THEN [S EXCEPT !.outcome = what]
    ELSE [S EXCEPT !.fatal = what]

\* The engine dereferences interp->obj.
WithInterpObj(S, x, h, R) ==
    IF S.interp[h].obj = Null THEN Throw(S, x, "null_object") ELSE R

\* Host thread t is in the scheduleSync call that appended task id.
Waits(S, t, id) ==
    IF TopIs(S, t, "wait") THEN Top(S.stack[t]).id = id ELSE FALSE

\* A blocking call's lambda assigns `result`, a local of the calling thread
\* captured by reference: the caller is waiting in scheduleSync, or is the
\* thread that runs the lambda.
SetResult(S, task, v) ==
    IF task.sync = Null THEN [S EXCEPT !.result = v]
    ELSE IF Waits(S, task.sync, task.id)
    THEN [S EXCEPT !.stack[task.sync] =
             Append(Pop(@), [Top(@) EXCEPT !.result = v])]
    ELSE S

(***************************************************************************)
(* The lambdas of the boundary calls (between LORELINE_BEGIN_CALL and      *)
(* LORELINE_END_CALL), after the thread guard.                             *)
(***************************************************************************)
\* Mutant of ParseBody: the lambda has no try/catch around the parser.
ParseBody_NoCatch(S, x, answer) ==
    CASE answer = "ok" -> Script_set(S, "script")
      [] answer = "throws" -> Throw(S, x, "parse_raised")
      [] OTHER -> S

\* The lambda of Loreline_parse: the handle is made only for a script, and the
\* parser's exception is caught.
ParseBody(S, x, answer) ==
    IF answer = "ok" THEN Script_set(S, "script") ELSE S

\* The lambda of Loreline_play: for a beat the script does not have the
\* engine raises an error before any event, the catch clause prints it and
\* h->set is not reached.
PlayBody(S, x, h, beat) ==
    IF beat = MissingBeat THEN S
    ELSE EngineRun(S, x, h, BeatPos(beat), "set")

\* The lambda of Loreline_start
StartBody(S, x, h, beat) ==
    WithInterpObj(S, x, h, EngineRun(S, x, h, BeatPos(beat), "none"))

\* The lambda of Loreline_restore: nothing catches the exception of the
\* snapshot decoder (Json parse, restore).
RestoreBody(S, x, h, snapshot) ==
    IF snapshot = BadSnapshot THEN Throw(S, x, "restore_raised")
    ELSE WithInterpObj(S, x, h, EngineRun(S, x, h, snapshot, "none"))

Body(S, x, task) ==
    CASE task.op = "parse" -> ParseBody(S, x, task.arg)
      [] task.op = "play" -> PlayBody(S, x, task.h, task.arg)
      [] task.op = "start" -> StartBody(S, x, task.h, task.arg)
      [] task.op = "restore" -> RestoreBody(S, x, task.h, task.pos)
      [] task.op = "save" ->
           WithInterpObj(S, x, task.h, SetResult(S, task, S.engine[task.h]))
      [] task.op = "releaseInterpreter" ->
           IF S.interp[task.h].alloc = "live" THEN Interpreter_delete(S, task.h)
           ELSE DoubleFree([S EXCEPT !.interp[task.h].alloc = "freed_twice"],
                           task.arg)
      [] task.op = "releaseScript" ->
           IF S.script.alloc = "live" THEN Script_delete(S)
           ELSE DoubleFree([S EXCEPT !.script.alloc = "freed_twice"],
                           task.arg)
      [] task.op = "run" ->
           EngineRun(S, x, task.h, ContinuationTarget(task.pos, task.index),
                     "none")
      [] OTHER -> S

\* linc_Loreline_ensureHaxeThread, first half: the runtime is started and the
\* calling thread recorded as its home.
EnsureInit(S, x) ==
    [S EXCEPT !.didCallHaxeMain = TRUE,
              !.haxeThreadId = x,
              !.initCount = @ + 1]

\* linc_Loreline_ensureHaxeThread, second half, then the lambda's body.
Guarded(S, x, task) ==
    IF S.haxeThreadId # x THEN Throw(S, x, "wrong_thread")
    ELSE Body(S, x, task)

(***************************************************************************)
(* The worker thread and the scheduler.                                    *)
(***************************************************************************)
\* Loreline_Thread::schedule
Thread_schedule(S, w, task) ==
    [S EXCEPT !.taskQueue[w] = Append(@, [task EXCEPT !.id = S.nextId]),
              !.nextId = @ + 1]

\* Loreline_Thread::scheduleSync: the caller t then waits for `completed`.
Thread_scheduleSync(S, w, t, task) ==
    PushFrame(Thread_schedule(S, w, [task EXCEPT !.sync = t]), t,
              [k |-> "wait", op |-> task.op, done |-> FALSE, w |-> w,
               id |-> S.nextId, result |-> NoResult])

\* Which path the scheduler takes.
UsesWorker(S) == S.useInternalThread /\ S.thread # Null

\* A lambda run inline by host thread t; cont names what the boundary call
\* does after the lambda. When the runtime is not started yet the thread is
\* between the test of didCallHaxeMain and its assignment.
RunInline(S, t, task, cont) ==
    IF ~S.didCallHaxeMain
    THEN PushFrame(S, t, [k |-> "ensure", task |-> task, cont |-> cont])
    ELSE Guarded(S, t, task)

\* Mutant of linc_Loreline_schedule: the lambda always runs inline.
schedule_AlwaysInline(S, t, task, cont) == RunInline(S, t, task, cont)

\* linc_Loreline_schedule
linc_Loreline_schedule(S, t, task, cont) ==
    IF UsesWorker(S) THEN Thread_schedule(S, S.thread, task)
    ELSE RunInline(S, t, task, cont)

\* linc_Loreline_scheduleSync
linc_Loreline_scheduleSync(S, t, task) ==
    IF UsesWorker(S) THEN Thread_scheduleSync(S, S.thread, t, task)
    ELSE RunInline(S, t, task, "none")

\* Mutant of ThreadLoopExits: the loop ends as soon as the stop flag is set.
ThreadLoopExits_OnStop(stop, queue) == stop

\* Loreline_Thread::threadLoop: the wait predicate and the exit test.
ThreadLoopExits(stop, queue) == stop /\ queue = << >>

ThreadLoopTakes(stop, queue) == queue # << >>

\* Mutant of QueueFront: the newest task is taken first.
QueueFront_Back(queue) == queue[Len(queue)]

\* Loreline_Thread::threadLoop: which task is taken, and what is left.
QueueFront(queue) == Head(queue)

QueuePop(queue) == Tail(queue)

\* Mutant of SyncWaitOver: the wait does not test `completed`.
SyncWaitOver_Always(completed) == TRUE

\* Loreline_Thread::scheduleSync: the predicate of syncCv->wait.
SyncWaitOver(completed) == completed

\* The end of a task on worker w: scheduleSync's wrapper sets `completed`.
WorkerDone(S, w, task) ==
    IF S.fatal # Null THEN S
    ELSE LET S1 == [S EXCEPT !.wpc[w] = "idle", !.wtask[w] = NoTask,
                             !.doneCount[w] = @ + 1]
         IN IF task.sync = Null \/ ~Waits(S1, task.sync, task.id) THEN S1
            ELSE [S1 EXCEPT !.stack[task.sync] =
                     Append(Pop(@), [Top(@) EXCEPT !.done = TRUE])]

(***************************************************************************)
(* The boundary calls, as made by host thread t.                           *)
(***************************************************************************)
CallPre(S) ==
    [S EXCEPT !.calls = @ + 1, !.outcome = "none", !.result = NoResult]

\* Loreline_init
Loreline_init(S, t) ==
    linc_Loreline_scheduleSync(S, t, Task("init", Null, Null))

\* Loreline_gc
Loreline_gc(S, t) ==
    linc_Loreline_schedule(S, t, Task("gc", Null, Null), "none")

\* Loreline_createThread: w is the thread the new Loreline_Thread starts.
Loreline_createThread(S, w) ==
    IF S.useInternalThread THEN S
    ELSE [S EXCEPT !.useInternalThread = TRUE,
                   !.thread = w,
                   !.wpc[w] = "idle"]

\* ~Loreline_Thread up to the join, called by `delete linc_Loreline_thread`.
DisposeTail(S, t) ==
    IF S.thread = Null THEN S
    ELSE LET w == S.thread
         IN PushFrame([S EXCEPT
                         !.stopFlag[w] = TRUE,
                         !.atStop[w] = {S.taskQueue[w][i].id :
                                          i \in DOMAIN S.taskQueue[w]}],
                      t, [k |-> "join", w |-> w])

\* Loreline_dispose up to the join.
Loreline_dispose(S, t) ==
    LET S1 == linc_Loreline_schedule(S, t, Task("noop", Null, Null), "dispose")
    IN IF TopIs(S1, t, "ensure") \/ S1.outcome # "none" THEN S1
       ELSE DisposeTail(S1, t)

\* Loreline_dispose after the join.
DisposeJoined(S, t) ==
    [PopFrame(S, t) EXCEPT !.thread = Null,
                           !.useInternalThread = FALSE]

\* Loreline_update after the flush.
\* The same tail with the comparison > in place of >=.
UpdateTail_Strict(S, t, delta) ==
    LET acc == S.gcAccum + delta
    IN IF acc > GcThreshold
       THEN linc_Loreline_schedule([S EXCEPT !.gcAccum = 0], t,
                                   Task("gc", Null, Null), "none")
       ELSE [S EXCEPT !.gcAccum = acc]

UpdateTail(S, t, delta) ==
    LET acc == S.gcAccum + delta
    IN IF acc >= GcThreshold
       THEN linc_Loreline_schedule([S EXCEPT !.gcAccum = 0], t,
                                   Task("gc", Null, Null), "none")
       ELSE [S EXCEPT !.gcAccum = acc]

\* Mutant of Loreline_update: flush copies the buffer instead of swapping it
\* for an empty one.
Loreline_update_NoSwap(S, t, delta) ==
    IF S.dispatchOutFunctions = << >> THEN UpdateTail(S, t, delta)
    ELSE PushFrame(S, t, [k |-> "flush", q |-> S.dispatchOutFunctions,
                          delta |-> delta])

\* Loreline_update: Loreline_FunctionQueue::flush up to its loop.
Loreline_update(S, t, delta) ==
    IF S.dispatchOutFunctions = << >> THEN UpdateTail(S, t, delta)
    ELSE PushFrame([S EXCEPT !.dispatchOutFunctions = << >>], t,
                   [k |-> "flush", q |-> S.dispatchOutFunctions,
                    delta |-> delta])

\* Mutant of FlushTurn: the loop calls the first saved callback again instead
\* of moving on to the next one.
FlushTurn_NoAdvance(S, t, ub) ==
    LET f == Top(S.stack[t])
    IN IF f.q = << >> THEN UpdateTail(PopFrame(S, t), t, f.delta)
       ELSE Deliver(S, t, Head(f.q), "none")

\* One turn of the loop of Loreline_FunctionQueue::flush, or its end. The
\* lambda of an event whose handle has been deleted reads freed memory, which
\* is undefined: the process crashes, or the stale handler pointer is still
\* there and is called (ub says which).
FlushTurn(S, t, ub) ==
    LET f == Top(S.stack[t])
    IN IF f.q = << >> THEN UpdateTail(PopFrame(S, t), t, f.delta)
       ELSE IF S.interp[Head(f.q).h].alloc # "live" /\ ub = "crash"
       THEN [S EXCEPT !.fatal = "use_after_free"]
       ELSE Deliver([S EXCEPT !.stack[t] =
                        Append(Pop(@), [f EXCEPT !.q = Tail(@)])],
                    t, Head(f.q), "none")

\* Loreline_parse: the engine's answer is part of the input.
Loreline_parse(S, t, answer) ==
    linc_Loreline_scheduleSync(S, t, Task("parse", Null, answer))

\* The early return of a boundary function that was given a null handle.
ReturnOnNull(S) == [S EXCEPT !.outcome = "null_handle"]

\* Loreline_play, with h the address of the new handle.
Loreline_play(S, t, scr, h, beat, handlers) ==
    IF scr = Null THEN ReturnOnNull(S) ELSE
    LET S1 == [S EXCEPT !.interp[h] = [NoInterp EXCEPT !.alloc = "live",
                                                       !.handlers = handlers],
                        !.sessState[h] = "Created",
                        !.hist[h] = NoHist,
                        !.unguarded = @ \cup {"Loreline_play: script->obj"}]
    IN linc_Loreline_schedule(S1, t, Task("play", h, beat), "none")

\* Loreline_start
Loreline_start(S, t, h, beat) ==
    IF h = Null THEN ReturnOnNull(S) ELSE
    linc_Loreline_schedule([S EXCEPT !.hist[h].onlyCont = FALSE], t,
                           Task("start", h, beat), "none")

\* Mutant of Loreline_save: the call drops the pending continuation.
Loreline_save_ClearsPending(S, t, h) ==
    IF h = Null THEN ReturnOnNull(S) ELSE
    linc_Loreline_scheduleSync(Interpreter_setPendingCallback(S, h, NoCb), t,
                               Task("save", h, Null))

\* Loreline_save
Loreline_save(S, t, h) ==
    IF h = Null THEN ReturnOnNull(S) ELSE
    linc_Loreline_scheduleSync(S, t, Task("save", h, Null))

\* Mutant of Loreline_restore: the lambda does not call hxInterp->resume().
Loreline_restore_NoResume(S, t, h, snapshot) ==
    linc_Loreline_schedule([S EXCEPT !.hist[h].onlyCont = FALSE], t,
                           Task("noop", h, Null), "none")

\* Loreline_restore
Loreline_restore(S, t, h, snapshot) ==
    IF h = Null THEN ReturnOnNull(S) ELSE
    linc_Loreline_schedule([S EXCEPT !.hist[h].onlyCont = FALSE], t,
                           [Task("restore", h, Null) EXCEPT !.pos = snapshot],
                           "none")

\* Loreline_releaseInterpreter
Loreline_releaseInterpreter(S, t, h, ub) ==
    IF h = Null THEN ReturnOnNull(S) ELSE
    linc_Loreline_schedule([S EXCEPT !.hostHas = @ \cup {h}], t,
                           Task("releaseInterpreter", h, ub), "none")

\* Loreline_releaseScript
Loreline_releaseScript(S, t, ub) ==
    linc_Loreline_schedule([S EXCEPT !.hostHas = @ \cup {"script"}], t,
                           Task("releaseScript", Null, ub), "none")

\* Mutant of NothingPending: the test of h->pendingCb is lost.
NothingPending_HandleOnly(h, pendingCb) == h = Null

\* The test `!h || !h->pendingCb` of linc_advance and linc_select.
NothingPending(h, pendingCb) == h = Null \/ pendingCb = NoCb

\* The common text of linc_advance and linc_select: cb->__run() when index is
\* NoIndex, cb->__run(index) otherwise.
RunPending(S, t, index) ==
    LET h == S.s_dispatchInterp
        cb == IF h = Null THEN NoCb ELSE S.interp[h].pendingCb
        S0 == IF h = Null THEN S
              ELSE [S EXCEPT !.unguarded =
                          @ \cup {"linc_advance/linc_select: h->pendingCb"}]
    IN IF NothingPending(h, cb) THEN [S0 EXCEPT !.outcome = "nothing_pending"]
       ELSE LET S1 == Interpreter_setPendingCallback(S0, h, NoCb)
                S2 == [S1 EXCEPT
                         !.sessState[h] = "Running",
                         !.hist[h].gap = IF S.hist[h].ran THEN S.hist[h].handlers
                                         ELSE @,
                         !.hist[h].ran = TRUE,
                         !.hist[h].handlers = 0]
            IN linc_Loreline_schedule(
                   S2, t,
                   [Task("run", h, Null) EXCEPT !.pos = cb, !.index = index],
                   "none")

\* linc_advance
linc_advance(S, t) == RunPending(S, t, NoIndex)

\* linc_select
linc_select(S, t, index) == RunPending(S, t, index)

(***************************************************************************)
(* Actions: a host thread makes a boundary call when it is in host code,   *)
(* at top level or inside one of its handlers.                             *)
(***************************************************************************)
AtTopLevel(t) == stack[t] = << >>

InHandler(t) == TopIs(St, t, "handler")

\* The two host threads are interchangeable until one has made a call: the
\* first call is taken to be T1's.
MayCall(t) == fatal = Null /\ calls < MaxCalls /\ (t = "T1" \/ calls > 0)

\* Calls the host makes from its main code only.
CanCall(t) == MayCall(t) /\ AtTopLevel(t)

\* Calls the host also makes from inside a handler.
CanCallNested(t) == MayCall(t) /\ (AtTopLevel(t) \/ InHandler(t))

\* What undefined behaviour does in the build at hand.
UbOutcomes == {"crash", "silent"}

\* The host holds handle h: Loreline_play returned it and the host has not
\* released it. A host that registered no handler only releases the session.
HostHolds(h) ==
    interp[h].alloc = "live" /\ interp[h].handlers /\ h \notin hostHas

\* The host does not call the continuation of a session it has released.
ContinuationUsable == s_dispatchInterp \notin hostHas

ScriptKnown ==
    /\ script.alloc = "live"
    /\ "script" \notin hostHas
    /\ \A t \in Hosts : ~(TopIs(St, t, "wait") /\ Top(stack[t]).op = "parse")

CallInit(t) ==
    /\ CanCall(t)
    /\ Commit(Loreline_init(CallPre(St), t))

CallGc(t) ==
    /\ CanCall(t)
    /\ Commit(Loreline_gc(CallPre(St), t))

CallCreateThread(t) ==
    /\ CanCall(t)
    /\ \E i \in DOMAIN WorkerIds :
         /\ wpc[WorkerIds[i]] = "unborn"
         /\ \A j \in 1..(i - 1) : wpc[WorkerIds[j]] # "unborn"
         /\ Commit(Loreline_createThread(CallPre(St),
                                         WorkerIds[i]))

\* Two overlapping Loreline_dispose calls delete the same Loreline_Thread
\* twice; the host is taken not to do that.
CallDispose(t) ==
    /\ CanCall(t)
    /\ \A u \in Hosts : ~TopIs(St, u, "join")
    /\ Commit(Loreline_dispose(CallPre(St), t))

DisposeJoin(t) ==
    /\ fatal = Null
    /\ TopIs(St, t, "join")
    /\ wpc[Top(stack[t]).w] = "exited"
    /\ Commit(DisposeJoined(St, t))

CallUpdate(t) ==
    /\ CanCallNested(t)
    /\ \E delta \in Deltas :
         Commit(Loreline_update(CallPre(St), t, delta))

FlushStep(t) ==
    /\ fatal = Null
    /\ TopIs(St, t, "flush")
    /\ \E ub \in UbOutcomes : Commit(FlushTurn(St, t, ub))

\* The host calls Loreline_parse with an input the parser answers with
\* `answer`.
ParseWith(t, answer) ==
    /\ CanCall(t)
    /\ script.alloc = "none"
    /\ \A u \in Hosts : ~(TopIs(St, u, "wait") /\ Top(stack[u]).op = "parse")
    /\ Commit(Loreline_parse(CallPre(St), t, answer))

CallParse(t) == \E answer \in ParseAnswers : ParseWith(t, answer)

CallPlay(t) ==
    /\ CanCall(t)
    /\ ScriptKnown
    /\ \E h \in Handles :
         /\ interp[h].alloc = "none"
         /\ \E inp \in PlayInputs :
              Commit(Loreline_play(CallPre(St), t, "script", h, inp[1], inp[2]))

\* The host calls Loreline_start(h, beat).
StartWith(t, h, beat) ==
    /\ CanCall(t)
    /\ HostHolds(h)
    /\ Commit(Loreline_start(CallPre(St), t, h, beat))

CallStart(t) == \E h \in Handles : \E beat \in Beats : StartWith(t, h, beat)

\* The host calls Loreline_save(h).
SaveWith(t, h) ==
    /\ CanCallNested(t)
    /\ HostHolds(h)
    /\ Commit(Loreline_save(CallPre(St), t, h))

CallSave(t) == \E h \in Handles : SaveWith(t, h)

\* The snapshot is the one Loreline_save has just returned for session h,
\* which is waiting for the host.
SavedHere(h, snapshot) ==
    /\ result = snapshot
    /\ engine[h] = snapshot
    /\ sessState[h] \in {"AwaitingAdvance", "AwaitingChoice"}
    /\ interp[h].pendingCb # NoCb

\* The host calls Loreline_restore(h, snapshot).
RestoreWith(t, h, snapshot) ==
    /\ CanCall(t)
    /\ HostHolds(h)
    /\ Commit(Loreline_restore(
                 [CallPre(St) EXCEPT !.hist[h].roundTrip =
                                         SavedHere(h, snapshot)],
                 t, h, snapshot))

CallRestore(t) ==
    \E h \in Handles : \E snapshot \in SnapshotTexts :
        RestoreWith(t, h, snapshot)

CallAdvance(t) ==
    /\ CanCallNested(t)
    /\ "advance" \in hostHas
    /\ ContinuationUsable
    /\ Commit(linc_advance(CallPre(St), t))

\* The host releases a handle it holds, or once more a handle it has released.
CallReleaseInterpreter(t) ==
    /\ CanCallNested(t)
    /\ \E h \in Handles :
         /\ interp[h].alloc \in {"live", "freed"}
         /\ \E ub \in IF h \in hostHas THEN UbOutcomes ELSE {"silent"} :
              Commit(Loreline_releaseInterpreter(CallPre(St), t, h, ub))

CallReleaseScript(t) ==
    /\ CanCall(t)
    /\ script.alloc \in {"live", "freed"}
    /\ \A u \in Hosts : ~(TopIs(St, u, "wait") /\ Top(stack[u]).op = "parse")
    /\ \E ub \in IF "script" \in hostHas THEN UbOutcomes ELSE {"silent"} :
         Commit(Loreline_releaseScript(CallPre(St), t, ub))

\* The host passes a null handle to an operation that requires one.
NullHandleOps == {"play", "start", "save", "restore"}

CallWithNullHandle(t) ==
    /\ CanCall(t)
    /\ \E op \in NullHandleOps :
         Commit(CASE op = "play" ->
                       Loreline_play(CallPre(St), t, Null, Null, Null, TRUE)
                  [] op = "start" -> Loreline_start(CallPre(St), t, Null, Null)
                  [] op = "save" -> Loreline_save(CallPre(St), t, Null)
                  [] OTHER -> Loreline_restore(CallPre(St), t, Null, 1))

\* The host calls select(index).
SelectWith(t, index) ==
    /\ CanCallNested(t)
    /\ "select" \in hostHas
    /\ ContinuationUsable
    /\ Commit(linc_select(CallPre(St), t, index))

CallSelect(t) == \E index \in SelectIndexes : SelectWith(t, index)

\* The host's handler returns; the dispatched lambda and then the call that
\* raised the event inline finish. When the handler has released the handle,
\* Loreline_play's h->set writes to freed memory, which is undefined: the
\* process crashes or the write and the root registration go through.
HandlerReturn(t) ==
    /\ fatal = Null
    /\ TopIs(St, t, "handler")
    /\ LET f == Top(stack[t])
       IN IF f.after = "set" /\ interp[f.ev.h].alloc # "live"
          THEN \E ub \in UbOutcomes :
                 Commit(IF ub = "crash"
                        THEN [FreeEventArrays(PopFrame(St, t), f.ev)
                                EXCEPT !.fatal = "use_after_free"]
                        ELSE LambdaEnd(PopFrame(St, t), f.ev, f.after))
          ELSE Commit(LambdaEnd(PopFrame(St, t), f.ev, f.after))

\* A host thread in the guard's window starts the runtime, then goes on.
EnsureStep(t) ==
    /\ fatal = Null
    /\ TopIs(St, t, "ensure")
    /\ LET f == Top(stack[t])
           S1 == Guarded(EnsureInit(PopFrame(St, t), t), t, f.task)
       IN Commit(IF f.cont = "dispose" /\ S1.outcome = "none"
                 THEN DisposeTail(S1, t) ELSE S1)

\* scheduleSync's wait ends and the blocking call returns `result`.
SyncReturn(t) ==
    /\ fatal = Null
    /\ TopIs(St, t, "wait")
    /\ SyncWaitOver(Top(stack[t]).done)
    /\ Commit([PopFrame(St, t) EXCEPT !.result = Top(stack[t]).result])

WorkerTake(w) ==
    /\ fatal = Null
    /\ wpc[w] = "idle"
    /\ ThreadLoopTakes(stopFlag[w], taskQueue[w])
    /\ ~ThreadLoopExits(stopFlag[w], taskQueue[w])
    /\ Commit([St EXCEPT !.wtask[w] = QueueFront(taskQueue[w]),
                         !.taskQueue[w] = QueuePop(taskQueue[w]),
                         !.wpc[w] = "run",
                         !.execLog[w] =
                             Append(@, QueueFront(taskQueue[w]).id)])

WorkerExit(w) ==
    /\ fatal = Null
    /\ wpc[w] = "idle"
    /\ ThreadLoopExits(stopFlag[w], taskQueue[w])
    /\ Commit([St EXCEPT !.wpc[w] = "exited"])

WorkerRun(w) ==
    /\ fatal = Null
    /\ wpc[w] = "run"
    /\ Commit(IF ~didCallHaxeMain THEN [St EXCEPT !.wpc[w] = "ensure"]
              ELSE WorkerDone(Guarded(St, w, wtask[w]), w, wtask[w]))

WorkerEnsure(w) ==
    /\ fatal = Null
    /\ wpc[w] = "ensure"
    /\ Commit(WorkerDone(Guarded(EnsureInit(St, w), w, wtask[w]), w, wtask[w]))

\* Every step but a host thread's own pass through the initialisation window.
NextHosted ==
    \/ \E t \in Hosts :
         \/ CallInit(t)
         \/ CallGc(t)
         \/ CallCreateThread(t)
         \/ CallDispose(t)
         \/ DisposeJoin(t)
         \/ CallUpdate(t)
         \/ FlushStep(t)
         \/ CallParse(t)
         \/ CallPlay(t)
         \/ CallStart(t)
         \/ CallSave(t)
         \/ CallRestore(t)
         \/ CallAdvance(t)
         \/ CallSelect(t)
         \/ CallReleaseInterpreter(t)
         \/ CallReleaseScript(t)
         \/ CallWithNullHandle(t)
         \/ HandlerReturn(t)
         \/ SyncReturn(t)
    \/ \E w \in Workers :
         \/ WorkerTake(w)
         \/ WorkerExit(w)
         \/ WorkerRun(w)
         \/ WorkerEnsure(w)

Next ==
    \/ NextHosted
    \/ \E t \in Hosts : EnsureStep(t)

Spec == Init /\ [][Next]_vars

(***************************************************************************)
(* The same program once the host's first call has been                    *)
(* Loreline_createThread: MaxCalls further calls are made from there.      *)
(***************************************************************************)
InitWorker ==
    /\ didCallHaxeMain = FALSE
    /\ useInternalThread = TRUE
    /\ haxeThreadId = Null
    /\ thread = WorkerIds[1]
    /\ stopFlag = [w \in Workers |-> FALSE]
    /\ taskQueue = [w \in Workers |-> << >>]
    /\ wpc = [w \in Workers |-> IF w = WorkerIds[1] THEN "idle" ELSE "unborn"]
    /\ wtask = [w \in Workers |-> NoTask]
    /\ dispatchOutFunctions = << >>
    /\ s_dispatchInterp = Null
    /\ gcAccum = 0
    /\ script = [alloc |-> "none", obj |-> Null]
    /\ interp = [h \in Handles |-> NoInterp]
    /\ engine = [h \in Handles |-> 0]
    /\ roots = {}
    /\ stack = [t \in Hosts |-> << >>]
    /\ calls = 0
    /\ fatal = Null
    /\ onWorker = FALSE
    /\ nextId = 1
    /\ execLog = [w \in Workers |-> << >>]
    /\ doneCount = [w \in Workers |-> 0]
    /\ initCount = 0
    /\ sessState = [h \in Handles |-> "None"]
    /\ hist = [h \in Handles |-> NoHist]
    /\ atStop = [w \in Workers |-> {}]
    /\ unguarded = {}
    /\ hostHas = {}
    /\ outcome = "none"
    /\ result = NoResult
    /\ arrays = {}
    /\ memFault = Null
    /\ NoStrings
    /\ NoFiles
    /\ NoBuild

\* The first action always runs on the worker, which initialises the runtime
\* there: no host thread ever passes through the initialisation window.
SpecWorker == InitWorker /\ [][NextHosted]_vars

(***************************************************************************)
(* Loreline_String: reference-counted string values. Each thread works on  *)
(* its own string objects; the buffers and their counters are shared. A    *)
(* step is one access to a shared counter together with the thread's own   *)
(* work around it.                                                         *)
(***************************************************************************)
Strs == [ptr |-> strPtr, rc |-> refCount, bs |-> bufState]

CommitStrs(R) ==
    /\ strPtr' = R.ptr
    /\ refCount' = R.rc
    /\ bufState' = R.bs

\* linc_createStringData
linc_createStringData(R, o, b) ==
    [R EXCEPT !.ptr[o] = b, !.rc[b] = 1, !.bs[b] = "allocated"]

\* Mutant of linc_retainStringData: the counter is not incremented.
retainStringData_NoAdd(R, d) == R

\* linc_retainStringData
linc_retainStringData(R, d) ==
    IF d \in Buffers THEN [R EXCEPT !.rc[d] = @ + 1] ELSE R

\* linc_releaseStringData: fetch_sub, and free when it returned 1.
linc_releaseStringData(R, d) ==
    IF d \notin Buffers THEN R
    ELSE [R EXCEPT !.rc[d] = @ - 1,
                   !.bs[d] = IF R.rc[d] # 1 THEN @
                             ELSE IF @ = "allocated" THEN "freed"
                             ELSE "freed_twice"]

\* Loreline_String(const Loreline_String& o), constructing object dst
String_copy(R, dst, src) ==
    linc_retainStringData([R EXCEPT !.ptr[dst] = R.ptr[src]], R.ptr[src])

\* Loreline_String(Loreline_String&& o)
String_move(R, dst, src) ==
    [R EXCEPT !.ptr[dst] = R.ptr[src], !.ptr[src] = Null]

\* ~Loreline_String
String_destroy(R, o) ==
    [linc_releaseStringData(R, R.ptr[o]) EXCEPT !.ptr[o] = Dead]

\* operator=(const Loreline_String& o), up to the retain
String_assignRetain(R, dst, src) == linc_retainStringData(R, R.ptr[src])

\* operator=(const Loreline_String& o), from the release on
String_assignRelease(R, dst, src) ==
    [linc_releaseStringData(R, R.ptr[dst]) EXCEPT !.ptr[dst] = R.ptr[src]]

\* Mutant of String_moveAssign: the previous buffer is not released.
String_moveAssign_NoRelease(R, dst, src) ==
    IF dst = src THEN R
    ELSE [R EXCEPT !.ptr[dst] = R.ptr[src], !.ptr[src] = Null]

\* operator=(Loreline_String&& o)
String_moveAssign(R, dst, src) ==
    IF dst = src THEN R
    ELSE [linc_releaseStringData(R, R.ptr[dst])
            EXCEPT !.ptr[dst] = R.ptr[src], !.ptr[src] = Null]

\* The objects of thread t.
SlotsOf(t) == {o \in StrSlots : o[1] = t}

Alive(o) == strPtr[o] # Dead

Idle(t) == strPc[t] = NoAssign

\* Thread t constructs object o from a C string, in a new buffer b.
StringCreate(t, o, b) ==
    /\ Idle(t) /\ ~Alive(o) /\ bufState[b] = "none"
    /\ CommitStrs(linc_createStringData(Strs, o, b))
    /\ UNCHANGED << strPc, bridgeVars, fileVars, buildVars >>

StringCopy(t, dst, src) ==
    /\ Idle(t) /\ ~Alive(dst) /\ Alive(src)
    /\ CommitStrs(String_copy(Strs, dst, src))
    /\ UNCHANGED << strPc, bridgeVars, fileVars, buildVars >>

StringMove(t, dst, src) ==
    /\ Idle(t) /\ ~Alive(dst) /\ Alive(src)
    /\ CommitStrs(String_move(Strs, dst, src))
    /\ UNCHANGED << strPc, bridgeVars, fileVars, buildVars >>

StringDestroy(t, o) ==
    /\ Idle(t) /\ Alive(o)
    /\ CommitStrs(String_destroy(Strs, o))
    /\ UNCHANGED << strPc, bridgeVars, fileVars, buildVars >>

\* dst = src; for this == &o the operator does nothing.
StringAssign(t, dst, src) ==
    /\ Idle(t) /\ Alive(dst) /\ Alive(src)
    /\ IF dst = src
       THEN UNCHANGED << stringVars, bridgeVars, fileVars, buildVars >>
       ELSE /\ CommitStrs(String_assignRetain(Strs, dst, src))
            /\ strPc' = [strPc EXCEPT ![t] = << dst, src >>]
            /\ UNCHANGED << bridgeVars, fileVars, buildVars >>

StringAssignEnd(t) ==
    /\ ~Idle(t)
    /\ CommitStrs(String_assignRelease(Strs, strPc[t][1], strPc[t][2]))
    /\ strPc' = [strPc EXCEPT ![t] = NoAssign]
    /\ UNCHANGED << bridgeVars, fileVars, buildVars >>

\* dst = std::move(src)
StringMoveAssign(t, dst, src) ==
    /\ Idle(t) /\ Alive(dst) /\ Alive(src)
    /\ CommitStrs(String_moveAssign(Strs, dst, src))
    /\ UNCHANGED << strPc, bridgeVars, fileVars, buildVars >>

\* The string objects at the start: any of them may exist, null or pointing
\* to a buffer, and each buffer's counter is the number of objects that point
\* to it.
InitStrings ==
    /\ BridgeInit
    /\ NoFiles
    /\ NoBuild
    /\ strPtr \in [StrSlots -> Buffers \cup {Null, Dead}]
    /\ refCount = [b \in Buffers |->
                      Cardinality({o \in StrSlots : strPtr[o] = b})]
    /\ bufState = [b \in Buffers |->
                      IF \E o \in StrSlots : strPtr[o] = b THEN "allocated"
                      ELSE "none"]
    /\ strPc = [t \in Hosts |-> NoAssign]

NextStrings ==
    \E t \in Hosts :
        \/ StringAssignEnd(t)
        \/ \E dst \in SlotsOf(t) :
              \/ StringDestroy(t, dst)
              \/ \E b \in Buffers : StringCreate(t, dst, b)
              \/ \E src \in SlotsOf(t) :
                    \/ StringCopy(t, dst, src)
                    \/ StringMove(t, dst, src)
                    \/ StringAssign(t, dst, src)
                    \/ StringMoveAssign(t, dst, src)

SpecStrings == InitStrings /\ [][NextStrings]_vars

(***************************************************************************)
(* The file handler bridge: during a parse the engine asks the host for    *)
(* the files the script imports. The engine is outside the bridge: it      *)
(* makes its requests one after the other, from the parse itself or from   *)
(* the continuation of an earlier request. The content of request r is     *)
(* named r.                                                                *)
(***************************************************************************)
FileTop == fileStack[Len(fileStack)]

\* The engine is running: the parser, or the continuation of a request.
EngineInControl ==
    IF fileStack = << >> THEN FALSE ELSE FileTop.k \in {"parse", "cont"}

\* The host is running: inside its file handler, or after Loreline_parse has
\* returned.
HostInControl ==
    IF fileStack = << >> THEN fileRequested > 0 ELSE FileTop.k = "handler"

\* Loreline_parse is called with a file handler and the engine starts parsing.
FileParseBegin ==
    /\ fileStack = << >>
    /\ fileRequested = 0
    /\ fileStack' = << [k |-> "parse", r |-> 0] >>
    /\ UNCHANGED << s_pendingFileProvide, fileRequested, fileProvided,
                    fileDelivered, bridgeVars, stringVars, buildVars >>

\* _hx_Closure_fileHandler up to the call of the host's file handler.
FileHandlerCall ==
    /\ EngineInControl
    /\ fileRequested < MaxFiles
    /\ fileRequested' = fileRequested + 1
    /\ s_pendingFileProvide' = fileRequested + 1
    /\ fileStack' = Append(fileStack, [k |-> "handler", r |-> fileRequested + 1])
    /\ UNCHANGED << fileProvided, fileDelivered, bridgeVars, stringVars,
                    buildVars >>

\* _hx_Closure_fileHandler after the host's file handler has returned.
FileHandlerReturn ==
    /\ fileStack # << >>
    /\ FileTop.k = "handler"
    /\ s_pendingFileProvide' = NoRequest
    /\ fileStack' = Pop(fileStack)
    /\ UNCHANGED << fileRequested, fileProvided, fileDelivered, bridgeVars,
                    stringVars, buildVars >>

\* linc_fileProvide, called by the host with the content of request r: the
\* pending continuation, if any, is cleared and run with the content.
linc_fileProvide(r) ==
    /\ HostInControl
    /\ r \in 1..fileRequested
    /\ r \notin fileProvided
    /\ fileProvided' = fileProvided \cup {r}
    /\ IF s_pendingFileProvide # NoRequest
       THEN /\ s_pendingFileProvide' = NoRequest
            /\ fileDelivered' =
                   [fileDelivered EXCEPT ![s_pendingFileProvide] = Append(@, r)]
            /\ fileStack' = Append(fileStack,
                                   [k |-> "cont", r |-> s_pendingFileProvide])
       ELSE UNCHANGED << s_pendingFileProvide, fileDelivered, fileStack >>
    /\ UNCHANGED << fileRequested, bridgeVars, stringVars, buildVars >>

\* The parser, or a continuation, returns to its caller.
FileEngineReturn ==
    /\ EngineInControl
    /\ fileStack' = Pop(fileStack)
    /\ UNCHANGED << s_pendingFileProvide, fileRequested, fileProvided,
                    fileDelivered, bridgeVars, stringVars, buildVars >>

InitFiles == BridgeInit /\ NoStrings /\ NoFiles /\ NoBuild

NextFiles ==
    \/ FileParseBegin
    \/ FileHandlerCall
    \/ FileHandlerReturn
    \/ \E r \in FileRequests : linc_fileProvide(r)
    \/ FileEngineReturn

SpecFiles == InitFiles /\ [][NextFiles]_vars

(***************************************************************************)
(* Properties.                                                             *)
(***************************************************************************)
\* The ids of the tasks worker w has taken from its queue.
Started(w) == {execLog[w][i] : i \in DOMAIN execLog[w]}

Awaiting == {"AwaitingAdvance", "AwaitingChoice"}

PendingOfDispatched ==
    IF s_dispatchInterp = Null THEN NoCb
    ELSE interp[s_dispatchInterp].pendingCb

\* C1: a session's pending continuation is non-null exactly when the session
\* is in AwaitingAdvance or AwaitingChoice; in particular it is null once a
\* finish event has fired.
C1_PendingIffAwaiting ==
    \A h \in Handles :
        (interp[h].pendingCb # NoCb) <=> (sessState[h] \in Awaiting)

\* C2: for a session driven by advance()/select() calls only, exactly one
\* handler has fired between two consecutive calls that ran a continuation.
C2_OneHandlerBetweenRuns ==
    \A h \in Handles : hist[h].onlyCont => hist[h].gap = 1

\* What an advance()/select() call with nothing pending must leave alone:
\* everything but the count of calls and the records kept about the call.
BridgeVars ==
    << didCallHaxeMain, useInternalThread, haxeThreadId, thread, stopFlag,
       taskQueue, wpc, wtask, dispatchOutFunctions, s_dispatchInterp,
       gcAccum, script, interp, engine, roots, stack, fatal, onWorker,
       nextId, execLog, doneCount, initCount, sessState, hist, atStop, hostHas >>

\* C3: advance() or select(i) called when the session has no pending
\* continuation schedules nothing, changes no state and fires no handler.
C3_NothingPendingIsNoOp ==
    [][\A t \in Hosts :
          (PendingOfDispatched = NoCb /\ (CallAdvance(t) \/ CallSelect(t)))
              => UNCHANGED BridgeVars]_vars

C3_Witness ==
    /\ outcome = "nothing_pending"
    /\ \E h \in Handles : hist[h].ran /\ sessState[h] = "Running"

\* C4: an event raised while the dedicated worker is enabled reaches its host
\* handler only inside the flush of a Loreline_update call, never on the
\* worker and never without a poll.
C4_DeferredUntilPoll ==
    /\ ~onWorker
    /\ \A t \in Hosts : \A k \in DOMAIN stack[t] :
          (stack[t][k].k = "handler" /\ stack[t][k].ev.deferred)
              => (k > 1 /\ stack[t][k - 1].k = "flush")

C4_Witness ==
    \E t \in Hosts :
        /\ TopIs(St, t, "handler")
        /\ Top(stack[t]).ev.deferred
        /\ engine[Top(stack[t]).ev.h] > 0

\* C5: each worker starts its queued tasks in the order they were appended,
\* whichever host threads appended them, and starts one only when the one
\* before it has ended.
C5_FifoOneAtATime ==
    \A w \in Workers :
        /\ \A i, j \in DOMAIN execLog[w] :
              i < j => execLog[w][i] < execLog[w][j]
        /\ \A i \in DOMAIN taskQueue[w] : \A j \in DOMAIN execLog[w] :
              execLog[w][j] < taskQueue[w][i].id
        /\ Len(execLog[w]) - doneCount[w] \in {0, 1}

C5_Witness ==
    \E w \in Workers :
        /\ wpc[w] = "run"
        /\ Len(execLog[w]) >= 2
        /\ Len(taskQueue[w]) >= 1
        /\ \A t \in Hosts : TopIs(St, t, "wait")

\* C6: no task taken from the worker's queue fails the thread-affinity check.
C6_WorkerPassesGuard == fatal # "wrong_thread"

\* C7: no boundary entry point reads or writes a handle's engine object, its
\* pending continuation or the GC roots before its guarded action.
C7_AllAccessGuarded == unguarded = {}

\* C8: the runtime is initialised exactly once and the home thread recorded
\* exactly once.
C8_InitialisedOnce == initCount = IF didCallHaxeMain THEN 1 ELSE 0

\* C9: with no worker and the runtime started, a call from a thread other
\* than the home thread that fails with the wrong-thread error leaves every
\* live session as it was.
C9_WrongThreadLeavesSessions ==
    [][\A t \in Hosts :
          ( /\ ~useInternalThread /\ thread = Null /\ didCallHaxeMain
            /\ haxeThreadId # t
            /\ calls' = calls + 1
            /\ outcome' = "wrong_thread" )
              => \A h \in Handles :
                    interp[h].alloc = "live"
                        => /\ interp'[h] = interp[h]
                           /\ engine'[h] = engine[h]
                           /\ sessState'[h] = sessState[h]]_vars

\* C10 as stated: a task in the worker's queue when the stop flag is set is
\* never executed.
C10_QueuedAtStopDropped ==
    \A w \in Workers : atStop[w] \cap Started(w) = {}

\* C10 as amended: every task in the worker's queue when the stop flag is set
\* has been executed by the time the worker thread ends, so before the join
\* in Loreline_dispose returns.
C10_QueuedAtStopRun ==
    \A w \in Workers : wpc[w] = "exited" => atStop[w] \subseteq Started(w)

C10_Witness ==
    \E w \in Workers :
        /\ wpc[w] = "exited"
        /\ thread = Null
        /\ Cardinality(atStop[w]) >= 2

\* The ids of the tasks worker w has run to completion.
Completed(w) == {execLog[w][i] : i \in 1..doneCount[w]}

\* C11: with a dedicated worker, a blocking boundary call returns only once
\* its own action has run to completion on the worker, hence after every
\* action appended ahead of it has completed, and the value it returns is the
\* one its action wrote (for Loreline_save, a snapshot of the session).
C11_BlockingCallWaits ==
    [][\A t \in Hosts :
         SyncReturn(t) =>
           LET f == Top(stack[t])
           IN /\ f.id \in Completed(f.w)
              /\ \A i \in DOMAIN taskQueue[f.w] : taskQueue[f.w][i].id > f.id
              /\ \A j \in Started(f.w) : j <= f.id => j \in Completed(f.w)
              /\ result' = f.result
              /\ f.op = "save" => result' \in Positions]_vars

C11_Witness ==
    /\ result \in Positions
    /\ \E w \in Workers : doneCount[w] >= 3
    /\ \A t \in Hosts : stack[t] = << >>

\* C12: while a dedicated worker is active no host handler is invoked on the
\* worker thread, and a handler is only entered by a host thread that is
\* inside the flush of its own Loreline_update call.
C12_HandlersOnPollingThread ==
    [][(useInternalThread /\ thread # Null) =>
         /\ ~onWorker'
         /\ \A t \in Hosts :
              (Len(stack'[t]) = Len(stack[t]) + 1 /\ TopIs(St', t, "handler"))
                => /\ TopIs(St, t, "flush")
                   /\ stack'[t][Len(stack[t])].k = "flush"]_vars

C12_Witness ==
    /\ useInternalThread
    /\ thread # Null
    /\ TopIs(St, "T2", "handler")
    /\ Top(stack["T2"]).ev.deferred
    /\ Len(stack["T2"]) = 2

RaisedStates == {"AwaitingAdvance", "AwaitingChoice", "Finished"}

\* C13 as stated: whenever no dedicated worker is active the dispatch-out
\* queue is empty.
C13_QueueEmptyWithoutWorker ==
    (~useInternalThread \/ thread = Null) => dispatchOutFunctions = << >>

\* C13, amended: an event raised while useInternalThread is false enters its
\* host handler (when one is registered) inline, in the boundary call that raised it, and is never
\* appended to the dispatch-out queue; the queue only ever holds events that
\* were captured while a worker was active (they stay there after
\* Loreline_dispose until the next Loreline_update).
C13_InlineWhenNoWorker ==
    [][/\ \A i \in DOMAIN dispatchOutFunctions' :
             dispatchOutFunctions'[i].deferred
       /\ ~useInternalThread =>
            /\ dispatchOutFunctions' \in {dispatchOutFunctions, << >>}
            /\ \A h \in Handles :
                 (/\ sessState'[h] # sessState[h]
                  /\ sessState'[h] \in RaisedStates
                  /\ interp'[h].handlers)
                   => \E t \in Hosts :
                        /\ Len(stack'[t]) = Len(stack[t]) + 1
                        /\ TopIs(St', t, "handler")
                        /\ Top(stack'[t]).ev.h = h
                        /\ ~Top(stack'[t]).ev.deferred]_vars

C13_Witness ==
    /\ ~useInternalThread
    /\ \E t \in Hosts :
         /\ Len(stack[t]) = 2
         /\ \A k \in 1..2 : stack[t][k].k = "handler" /\ ~stack[t][k].ev.deferred
         /\ stack[t][2].ev.kind = "choice"

\* C14: in AwaitingChoice, select(i) with i = -1 or i = optionCount is
\* rejected by the bridge: the pending continuation is not consumed and no
\* engine action is run or queued for it.
C14_BadIndexRejected ==
    [][\A t \in Hosts : \A i \in {0 - 1, OptionCount} :
         (/\ s_dispatchInterp # Null
          /\ PendingOfDispatched # NoCb
          /\ ScriptNodes[PendingOfDispatched] = "choice"
          /\ SelectWith(t, i))
           => /\ interp' = interp
              /\ engine' = engine
              /\ taskQueue' = taskQueue]_vars

\* The continuation roots registered through handle h.
CbRoots(h) == {r \in roots : r = <<h, "pendingCb">>}

\* C15: a session holds at most one pending continuation and at most one
\* continuation root, and a pending continuation is pinned by that root: a new
\* dialogue or choice event that fires while a continuation is still pending
\* (start or restore) replaces it, the root then pinning the new one only.
C15_OnePendingOnePin ==
    \A h \in Handles :
        /\ Cardinality(CbRoots(h)) <= 1
        /\ interp[h].pendingCb # NoCb => Cardinality(CbRoots(h)) = 1

C15_Witness ==
    \E h \in Handles :
        /\ ~hist[h].onlyCont
        /\ hist[h].handlers >= 2
        /\ sessState[h] \in Awaiting
        /\ interp[h].pendingCb # NoCb

SessionVars ==
    << interp, engine, roots, sessState, s_dispatchInterp,
       dispatchOutFunctions, hist >>

HandlerFrames(stk) == {k \in DOMAIN stk : stk[k].k = "handler"}

\* C17: Loreline_save leaves the session unchanged, both when the call is made
\* and when its action runs on the worker: the playback state, the pending
\* continuation and its pin are the same after as before, and no handler is
\* entered or queued because of it.
C17_SaveChangesNothing ==
    [][(\/ \E t \in Hosts : \E h \in Handles : SaveWith(t, h)
        \/ \E w \in Workers :
             wtask[w].op = "save" /\ (WorkerRun(w) \/ WorkerEnsure(w)))
         => /\ UNCHANGED SessionVars
            /\ \A t \in Hosts :
                 HandlerFrames(stack'[t]) = HandlerFrames(stack[t])]_vars

C17_Witness ==
    \E h \in Handles :
        /\ result \in Positions
        /\ sessState[h] = "AwaitingAdvance"
        /\ interp[h].pendingCb = result
        /\ <<h, "pendingCb">> \in roots
        /\ useInternalThread
        /\ \A t \in Hosts : ~TopIs(St, t, "wait")

\* The roots registered through handle h (an interpreter or the script).
RootsOf(h) == {r \in roots : r[1] = h}

\* C18: the engine object of every live handle is registered as a root, and
\* no root registered through a handle remains once the handle has been
\* released, also when Loreline_Interpreter::set ran twice for it (from the
\* first event's closure, then when play returned).
C18_RootsFollowHandles ==
    /\ \A h \in Handles :
         /\ (interp[h].alloc = "live" /\ interp[h].obj # Null)
              => <<h, "obj">> \in roots
         /\ interp[h].alloc # "live" => RootsOf(h) = {}
    /\ (script.alloc = "live" /\ script.obj # Null)
         => <<"script", "obj">> \in roots
    /\ script.alloc # "live" => RootsOf("script") = {}

\* C19: releasing a handle that has already been released is a harmless
\* no-op: nothing is freed twice and no error state is reached.
C19_SecondReleaseHarmless ==
    /\ fatal # "double_free"
    /\ script.alloc # "freed_twice"
    /\ \A h \in Handles : interp[h].alloc # "freed_twice"

\* C20: a boundary call that is given a null handle where it requires one
\* aborts the process instead of returning normally.
C20_NullHandleAborts == outcome = "null_handle" => fatal # Null

(***************************************************************************)
(* Errors of the engine at the boundary.                                   *)
(***************************************************************************)
\* The parser has no script for the input of this parse lambda.
ParseFails(task) == task.op = "parse" /\ task.arg # "ok"

\* A step of a Loreline_parse call whose input the parser rejects: the call
\* itself, the host thread's pass through the initialisation window, or the
\* worker's execution of the lambda.
FailedParseStep ==
    \/ /\ calls' = calls + 1
       /\ \E t \in Hosts : \E answer \in ParseAnswers \ {"ok"} :
            ParseWith(t, answer)
    \/ \E t \in Hosts :
           /\ TopIs(St, t, "ensure")
           /\ ParseFails(Top(stack[t]).task)
           /\ EnsureStep(t)
    \/ \E w \in Workers :
           /\ ParseFails(wtask[w])
           /\ WorkerRun(w) \/ WorkerEnsure(w)

\* C21: when the engine fails to parse the input (it raises a parse error or
\* yields no script), no step of the Loreline_parse call creates a Script
\* handle or registers a GC root, and the parser's exception neither leaves
\* the call nor ends the process: the call returns the null handle.
C21_FailedParseLeavesNothing ==
    [][FailedParseStep =>
         /\ script' = script
         /\ roots' = roots
         /\ outcome' # "parse_raised"
         /\ fatal' # "parse_raised"]_vars

\* A blocking parse whose input was rejected has completed on the worker and
\* is about to return: there is no handle and no root.
C21_Witness ==
    \E t \in Hosts :
        /\ TopIs(St, t, "wait")
        /\ Top(stack[t]).op = "parse"
        /\ Top(stack[t]).done
        /\ script.alloc = "none"
        /\ roots = {}
        /\ fatal = Null

\* C22: an exception the engine raises inside play, resume, save or restore,
\* the decoding of the snapshot text included, is caught at the boundary: it
\* never leaves the host's call and never leaves the worker's action (which
\* would end the process). Here for Loreline_restore with a text that is not
\* a snapshot.
C22_EngineErrorsCaught ==
    /\ outcome # "restore_raised"
    /\ fatal # "restore_raised"

(***************************************************************************)
(* The arrays handed to the handlers.                                      *)
(***************************************************************************)
\* The events whose dispatched lambda has not ended: those in the dispatch-out
\* queue, those a flush has taken and not yet run, and those whose handler
\* is running.
EventsInFlight ==
    {dispatchOutFunctions[i] : i \in DOMAIN dispatchOutFunctions}
      \cup UNION {{stack[t][i].ev : i \in {j \in DOMAIN stack[t] :
                                               stack[t][j].k = "handler"}} :
                   t \in Hosts}
      \cup UNION {UNION {{stack[t][i].q[n] : n \in DOMAIN stack[t][i].q} :
                          i \in {j \in DOMAIN stack[t] :
                                    stack[t][j].k = "flush"}} :
                   t \in Hosts}

\* The array of an event and the tag arrays nested in it are allocated.
ArraysValid(ev) ==
    IF ev.arr = NullArray THEN TRUE
    ELSE /\ ev.arr \in LiveArrays(St)
         /\ \A i \in DOMAIN ArrayAt(St, ev.arr).tags :
              \/ ArrayAt(St, ev.arr).tags[i] = NullArray
              \/ ArrayAt(St, ev.arr).tags[i] \in LiveArrays(St)

\* The arrays of an event, nested ones included.
ArraysOf(ev) ==
    IF ev.arr \notin LiveArrays(St) THEN {}
    ELSE {ev.arr} \cup ({ArrayAt(St, ev.arr).tags[i] :
                            i \in DOMAIN ArrayAt(St, ev.arr).tags}
                         \ {NullArray})

\* C23: the tag and option arrays built for an event stay allocated until its
\* handler call has returned (while the event is queued and while the handler
\* runs), no array is freed twice or read after it was freed (the outer option
\* array is freed after the tag arrays nested in it), and the step in which
\* the handler returns frees them all.
C23_ArraysLastForHandlerCall ==
    /\ [](memFault = Null /\ \A ev \in EventsInFlight : ArraysValid(ev))
    /\ [][\A t \in Hosts :
            TopIs(St, t, "handler") /\ HandlerReturn(t) =>
                ArraysOf(Top(stack[t]).ev) \cap {b.id : b \in arrays'} = {}]_vars

\* The handler of a choice event that went through the dispatch-out queue is
\* running: the option array and the tag array of its first option are there.
C23_Witness ==
    \E t \in Hosts :
        /\ TopIs(St, t, "handler")
        /\ Top(stack[t]).ev.kind = "choice"
        /\ Top(stack[t]).ev.deferred
        /\ Cardinality(ArraysOf(Top(stack[t]).ev)) = 2
        /\ memFault = Null

(***************************************************************************)
(* Reference counting of string buffers (SpecStrings).                     *)
(***************************************************************************)
\* The objects that own a reference to buffer b, and the copy-assignments
\* that have retained b for their destination and not yet stored it.
Owners(b) == {o \in StrSlots : strPtr[o] = b}

Retained(b) == {t \in Hosts : ~Idle(t) /\ strPtr[strPc[t][2]] = b}

\* C24: under any interleaving of copies, copy-assignments and destructions
\* by the threads, a buffer is never freed twice, is allocated as long as an
\* object owns a reference to it, its counter is the number of references
\* held, and it is freed by the step that drops the last one.
C24_FreedOnceAtLastRelease ==
    \A b \in Buffers :
        /\ bufState[b] # "freed_twice"
        /\ Owners(b) # {} => bufState[b] = "allocated"
        /\ bufState[b] = "allocated" =>
              /\ refCount[b] = Cardinality(Owners(b)) + Cardinality(Retained(b))
              /\ refCount[b] >= 1
        /\ bufState[b] = "freed" => refCount[b] = 0

\* One buffer has been freed after its last reference was destroyed while the
\* other is still owned by objects of both threads.
C24_Witness ==
    \E b, c \in Buffers :
        /\ bufState[b] = "freed"
        /\ bufState[c] = "allocated"
        /\ \A t \in Hosts : Owners(c) \cap SlotsOf(t) # {}
        /\ \E t \in Hosts : ~Idle(t)

\* A step that moves the buffer of object src into another object dst.
MoveStep(dst, src) ==
    \E t \in Hosts :
        /\ dst # src
        /\ StringMove(t, dst, src) \/ StringMoveAssign(t, dst, src)

\* C25 as stated: a move construction or move assignment leaves the counter
\* of the moved buffer unchanged and the source null, and a self-move
\* assignment changes nothing.
C25_MoveKeepsCount ==
    [][\A dst, src \in StrSlots :
         /\ MoveStep(dst, src) =>
               /\ strPtr'[src] = Null
               /\ strPtr'[dst] = strPtr[src]
               /\ strPtr[src] \in Buffers =>
                     refCount'[strPtr[src]] = refCount[strPtr[src]]
         /\ (\E t \in Hosts : StringMoveAssign(t, src, src)) =>
               UNCHANGED stringVars]_vars

\* C25, amended: a move leaves the source null and the destination pointing
\* to the moved buffer; a move construction changes no counter and frees
\* nothing; a move assignment releases the destination's previous buffer
\* exactly once (its counter drops by one and it is freed when that was its
\* last reference) and changes no other counter, so that the moved buffer's
\* counter is unchanged unless the destination already pointed to it; a
\* self-move assignment changes nothing.
C25_MoveTransfersOwnership ==
    [][\A dst, src \in StrSlots : \A t \in Hosts :
         /\ dst # src /\ StringMove(t, dst, src) =>
               /\ strPtr'[src] = Null
               /\ strPtr'[dst] = strPtr[src]
               /\ refCount' = refCount
               /\ bufState' = bufState
         /\ dst # src /\ StringMoveAssign(t, dst, src) =>
               /\ strPtr'[src] = Null
               /\ strPtr'[dst] = strPtr[src]
               /\ \A b \in Buffers :
                     /\ refCount'[b] = IF b = strPtr[dst] THEN refCount[b] - 1
                                       ELSE refCount[b]
                     /\ bufState'[b] =
                           IF b = strPtr[dst] /\ refCount[b] = 1 THEN "freed"
                           ELSE bufState[b]
         /\ StringMoveAssign(t, src, src) => UNCHANGED stringVars]_vars

\* A move assignment has released the last reference to the destination's
\* previous buffer: the moved buffer has one owner and the other is freed.
C25_Witness ==
    \E b, c \in Buffers :
        /\ bufState[b] = "freed"
        /\ bufState[c] = "allocated"
        /\ refCount[c] = 1
        /\ \E o \in Owners(c) : \E p \in SlotsOf(o[1]) : strPtr[p] = Null

(***************************************************************************)
(* The dedicated worker.                                                   *)
(***************************************************************************)
\* The worker threads that have been started and have not ended.
LiveWorkers == {w \in Workers : wpc[w] \notin {"unborn", "exited"}}

\* C26: there is at most one dedicated worker thread at any time and it is
\* chosen once: no Loreline_createThread call, repeated or made after
\* Loreline_dispose, starts a worker thread other than the first one.
C26_OneWorkerChosenOnce ==
    /\ Cardinality(LiveWorkers) <= 1
    /\ \A w \in Workers : w # WorkerIds[1] => wpc[w] = "unborn"

(***************************************************************************)
(* The file handler bridge (SpecFiles).                                    *)
(***************************************************************************)
\* C27: the content the host passes to provide for a file request is
\* delivered to that request's engine continuation exactly once, whether
\* provide is called inside the file handler or after it has returned: once
\* the host has provided for request r, the continuation of r has been run
\* once, with the content of r, and no continuation is run otherwise.
C27_ProvidedContentDelivered ==
    \A r \in FileRequests :
        fileDelivered[r] = IF r \in fileProvided THEN << r >> ELSE << >>

(***************************************************************************)
(* The scheduler's choice of path.                                         *)
(***************************************************************************)
\* After the step, thread t is waiting in scheduleSync.
WaitsAfter(t) ==
    IF stack'[t] = << >> THEN FALSE
    ELSE stack'[t][Len(stack'[t])].k = "wait"

\* After the step, thread t is inside the guard of a lambda it runs itself.
EnsuresAfter(t) ==
    IF stack'[t] = << >> THEN FALSE
    ELSE stack'[t][Len(stack'[t])].k = "ensure"

\* The step appends one lambda of call op to the worker's queue, and nothing
\* of the engine's state changes.
AppendsOnly(op) ==
    /\ Len(taskQueue'[thread]) = Len(taskQueue[thread]) + 1
    /\ taskQueue'[thread][Len(taskQueue'[thread])].op = op
    /\ SubSeq(taskQueue'[thread], 1, Len(taskQueue[thread])) = taskQueue[thread]
    /\ script' = script
    /\ engine' = engine
    /\ initCount' = initCount

\* C28: the path of a boundary action depends only on whether a dedicated
\* worker is active (the flag is set and the worker object exists). Without
\* one, the blocking Loreline_parse and the fire-and-forget Loreline_start run
\* their action on the calling thread inside the call and append nothing.
\* With one, both only append the action to the worker's queue; the caller
\* of the blocking one then waits, the caller of the fire-and-forget one has
\* returned.
C28_PathFollowsWorker ==
    [][calls' = calls + 1 => \A t \in Hosts :
         /\ \A answer \in ParseAnswers :
              script.alloc = "none" /\ ParseWith(t, answer) =>
                IF UsesWorker(St)
                THEN AppendsOnly("parse") /\ WaitsAfter(t)
                ELSE /\ taskQueue' = taskQueue
                     /\ ~WaitsAfter(t)
                     /\ IF ~didCallHaxeMain THEN EnsuresAfter(t)
                        ELSE haxeThreadId = t /\ answer = "ok" =>
                               script'.alloc = "live"
         /\ \A h \in Handles : \A beat \in Beats :
              interp[h].alloc = "live" /\ StartWith(t, h, beat) =>
                IF UsesWorker(St)
                THEN AppendsOnly("start") /\ stack'[t] = stack[t]
                ELSE /\ taskQueue' = taskQueue
                     /\ ~WaitsAfter(t)
                     /\ IF ~didCallHaxeMain THEN EnsuresAfter(t)
                        ELSE /\ haxeThreadId = t
                             /\ interp[h].obj # Null
                             => engine'[h] = BeatPos(beat)]_vars

\* With a worker, a Loreline_start call has returned while its action is
\* still in the worker's queue; a thread is waiting in a Loreline_save call
\* whose action is queued too.
C28_Witness ==
    /\ UsesWorker(St)
    /\ \E i \in DOMAIN taskQueue[thread] : taskQueue[thread][i].op = "start"
    /\ \E t \in Hosts : stack[t] = << >>
    /\ \E t \in Hosts :
          /\ TopIs(St, t, "wait")
          /\ Top(stack[t]).op = "save"
          /\ ~Top(stack[t]).done

\* The running flushes of thread t: the positions of their frames.
FlushFrames(t) == {i \in 1..Len(stack[t]) : stack[t][i].k = "flush"}

\* Sequence a is the beginning of sequence b.
IsPrefix(a, b) == Len(a) <= Len(b) /\ SubSeq(b, 1, Len(a)) = a

\* A step in which thread t starts a flush: a flush frame is pushed.
FlushBegins(t) ==
    /\ Len(stack'[t]) = Len(stack[t]) + 1
    /\ Top(stack'[t]).k = "flush"

\* C29: a flush takes the whole buffer in one swap that leaves it empty, and
\* runs only the callbacks it took: its saved list only loses its head, one
\* callback at a time, and the buffer is emptied by nothing but the swap of a
\* starting flush, so a callback added while a flush iterates stays queued.
C29_FlushRunsOnlyWhatItSwapped ==
    [][/\ \A t \in Hosts :
            /\ FlushBegins(t) =>
                  /\ Top(stack'[t]).q = dispatchOutFunctions
                  /\ dispatchOutFunctions' = << >>
            /\ \A i \in FlushFrames(t) :
                  i <= Len(stack'[t]) =>
                    /\ stack'[t][i].k = "flush"
                    /\ IF stack[t][i].q = << >>
                       THEN stack'[t][i].q = << >>
                       ELSE stack'[t][i].q \in
                              {stack[t][i].q, Tail(stack[t][i].q)}
       /\ \/ IsPrefix(dispatchOutFunctions, dispatchOutFunctions')
          \/ \E t \in Hosts : FlushBegins(t)]_vars

\* A flush is iterating and a callback has been added meanwhile.
C29_Witness ==
    /\ dispatchOutFunctions # << >>
    /\ \E t \in Hosts : FlushFrames(t) # {}

\* The bridge after Loreline_createThread, Loreline_parse and Loreline_play
\* with handlers, all run by the worker W1: session h1 has raised its first
\* dialogue event, which waits in the dispatch-out queue. The host's calls
\* are counted from here.
InitPolling ==
    /\ didCallHaxeMain = TRUE
    /\ useInternalThread = TRUE
    /\ haxeThreadId = WorkerIds[1]
    /\ thread = WorkerIds[1]
    /\ stopFlag = [w \in Workers |-> FALSE]
    /\ taskQueue = [w \in Workers |-> << >>]
    /\ wpc = [w \in Workers |-> IF w = WorkerIds[1] THEN "idle" ELSE "unborn"]
    /\ wtask = [w \in Workers |-> NoTask]
    /\ dispatchOutFunctions =
         <<[pos |-> 1, kind |-> "dialogue", h |-> "h1", arr |-> 1,
            deferred |-> TRUE]>>
    /\ s_dispatchInterp = Null
    /\ gcAccum = 0
    /\ script = [alloc |-> "live", obj |-> "script"]
    /\ interp = [h \in Handles |->
                   [alloc |-> "live", obj |-> h, pendingCb |-> 1,
                    handlers |-> TRUE]]
    /\ engine = [h \in Handles |-> 1]
    /\ roots = {<<"script", "obj">>, <<"h1", "obj">>, <<"h1", "pendingCb">>}
    /\ stack = [t \in Hosts |-> << >>]
    /\ calls = 0
    /\ fatal = Null
    /\ onWorker = FALSE
    /\ nextId = 3
    /\ execLog = [w \in Workers |->
                    IF w = WorkerIds[1] THEN <<1, 2>> ELSE << >>]
    /\ doneCount = [w \in Workers |-> IF w = WorkerIds[1] THEN 2 ELSE 0]
    /\ initCount = 1
    /\ sessState = [h \in Handles |-> "AwaitingAdvance"]
    /\ hist = [h \in Handles |-> NoHist]
    /\ atStop = [w \in Workers |-> {}]
    /\ unguarded = {"Loreline_play: script->obj"}
    /\ hostHas = {}
    /\ outcome = "none"
    /\ result = NoResult
    /\ arrays = {[id |-> 1, tags |-> << >>]}
    /\ memFault = Null
    /\ NoStrings
    /\ NoFiles
    /\ NoBuild

\* The host starts and advances the session and polls, from its main code
\* and from inside its handlers, while the worker runs the engine.
NextPolling ==
    \/ \E t \in Hosts :
         \/ CallStart(t)
         \/ CallAdvance(t)
         \/ CallUpdate(t)
         \/ FlushStep(t)
         \/ HandlerReturn(t)
    \/ \E w \in Workers :
         \/ WorkerTake(w)
         \/ WorkerRun(w)

SpecPolling == InitPolling /\ [][NextPolling]_vars

\* A step in which thread t enters a host handler.
HandlerEntered(t) ==
    /\ Len(stack'[t]) = Len(stack[t]) + 1
    /\ Top(stack'[t]).k = "handler"

\* C30: events are delivered in capture order across the polls of one
\* polling thread. A flush that is still iterating holds events captured
\* before every event of a flush started later (a flush takes the whole
\* buffer), so when a flush enters a handler, no flush begun earlier by the
\* same thread still has an event to deliver.
C30_DeliveredInCaptureOrder ==
    [][\A t \in Hosts :
         TopIs(St, t, "flush") /\ HandlerEntered(t) =>
           \A i \in FlushFrames(t) :
             i < Len(stack[t]) => stack[t][i].q = << >>]_vars

\* The events saved by the flushes running on a thread's stack.
RECURSIVE FrameEvents(_)
FrameEvents(stk) ==
    IF stk = << >> THEN << >>
    ELSE (IF Head(stk).k = "flush" THEN Head(stk).q ELSE << >>)
           \o FrameEvents(Tail(stk))

RECURSIVE SavedEvents(_, _)
SavedEvents(stacks, ts) ==
    IF ts = {} THEN << >>
    ELSE LET t == CHOOSE u \in ts : TRUE
         IN FrameEvents(stacks[t]) \o SavedEvents(stacks, ts \ {t})

\* Every captured event that has not been delivered: those in the buffer and
\* those saved by a running flush of any thread.
Undelivered(buffer, stacks) == buffer \o SavedEvents(stacks, Hosts)

\* How many times event e occurs in a sequence of events.
CountIn(seq, e) == Cardinality({i \in DOMAIN seq : seq[i] = e})

\* A step in which the worker finishes an engine action, the only place where
\* linc_Loreline_dispatchOut adds to the buffer.
WorkerCaptures ==
    \E w \in Workers : wpc[w] \in {"run", "ensure"} /\ wpc'[w] = "idle"

\* C31: a captured event is delivered at most once. The undelivered events
\* gain an occurrence only when the worker captures an event, one at a time;
\* the swap of a flush moves events without copying them; and every entry to
\* a handler for a captured event takes one occurrence of that event away.
C31_DeliveredAtMostOnce ==
    [][LET before == Undelivered(dispatchOutFunctions, stack)
           after == Undelivered(dispatchOutFunctions', stack')
       IN /\ \A i \in IF after = before THEN {} ELSE DOMAIN after :
               LET e == after[i]
               IN /\ CountIn(after, e) <= CountIn(before, e) + 1
                  /\ CountIn(after, e) > CountIn(before, e) =>
                       WorkerCaptures /\ Len(after) = Len(before) + 1
          /\ \A t \in Hosts :
               TopIs(St, t, "flush") /\ HandlerEntered(t) =>
                 LET e == Top(stack'[t]).ev
                 IN /\ CountIn(before, e) >= 1
                    /\ CountIn(after, e) = CountIn(before, e) - 1
                    /\ Len(after) = Len(before) - 1]_vars

\* Two host threads are inside a poll at once, one of them in a handler its
\* flush has called, and a poll is nested inside a handler.
C31_Witness ==
    /\ \E t \in Hosts : \E u \in Hosts \ {t} :
         /\ FlushFrames(t) # {} /\ TopIs(St, t, "handler")
         /\ FlushFrames(u) # {} /\ TopIs(St, u, "handler")
         /\ Cardinality(FlushFrames(t)) = 2

\* Two sessions of one script: the addresses of their handles.
Sessions == {"h1", "h2"}

\* The bridge after Loreline_createThread and Loreline_parse, run by the
\* worker W1, with room for two sessions. The host's calls are counted from
\* here.
InitSessions ==
    /\ didCallHaxeMain = TRUE
    /\ useInternalThread = TRUE
    /\ haxeThreadId = WorkerIds[1]
    /\ thread = WorkerIds[1]
    /\ stopFlag = [w \in Workers |-> FALSE]
    /\ taskQueue = [w \in Workers |-> << >>]
    /\ wpc = [w \in Workers |-> IF w = WorkerIds[1] THEN "idle" ELSE "unborn"]
    /\ wtask = [w \in Workers |-> NoTask]
    /\ dispatchOutFunctions = << >>
    /\ s_dispatchInterp = Null
    /\ gcAccum = 0
    /\ script = [alloc |-> "live", obj |-> "script"]
    /\ interp = [h \in Sessions |-> NoInterp]
    /\ engine = [h \in Sessions |-> 0]
    /\ roots = {<<"script", "obj">>}
    /\ stack = [t \in Hosts |-> << >>]
    /\ calls = 0
    /\ fatal = Null
    /\ onWorker = FALSE
    /\ nextId = 2
    /\ execLog = [w \in Workers |-> IF w = WorkerIds[1] THEN <<1>> ELSE << >>]
    /\ doneCount = [w \in Workers |-> IF w = WorkerIds[1] THEN 1 ELSE 0]
    /\ initCount = 1
    /\ sessState = [h \in Sessions |-> "None"]
    /\ hist = [h \in Sessions |-> NoHist]
    /\ atStop = [w \in Workers |-> {}]
    /\ unguarded = {}
    /\ hostHas = {}
    /\ outcome = "none"
    /\ result = NoResult
    /\ arrays = {}
    /\ memFault = Null
    /\ NoStrings
    /\ NoFiles
    /\ NoBuild

\* The host calls Loreline_play with handlers for a session it has not
\* created yet, from its main code or from inside a handler.
PlaySession(t) ==
    /\ CanCallNested(t)
    /\ ScriptKnown
    /\ \E h \in Sessions :
         /\ interp[h].alloc = "none"
         /\ Commit(Loreline_play(CallPre(St), t, "script", h, Null, TRUE))

\* The host plays two sessions, polls, and calls the advance() it was handed.
NextSessions ==
    \/ \E t \in Hosts :
         \/ PlaySession(t)
         \/ CallAdvance(t)
         \/ CallUpdate(t)
         \/ FlushStep(t)
         \/ HandlerReturn(t)
    \/ \E w \in Workers :
         \/ WorkerTake(w)
         \/ WorkerRun(w)

SpecSessions == InitSessions /\ [][NextSessions]_vars

\* C32: the continuation handed to a handler for session S resumes S. When
\* the host calls advance() from inside the handler it was handed to, the
\* call consumes the pending continuation of that handler's session and
\* leaves every other session's pending continuation alone.
C32_ContinuationResumesItsSession ==
    [][\A t \in Hosts :
         (/\ calls' = calls + 1
          /\ InHandler(t)
          /\ CallAdvance(t)) =>
            LET s == Top(stack[t]).ev.h
            IN /\ interp[s].pendingCb # NoCb => interp'[s].pendingCb = NoCb
               /\ \A h \in Sessions \ {s} :
                    interp'[h].pendingCb = interp[h].pendingCb]_vars

\* C33: once Loreline_releaseInterpreter(h) has been executed nothing reads
\* or writes h; in particular the callback of an event of h that a flush has
\* saved is not run on the deleted handle.
C33_NoDeliveryThroughFreedHandle ==
    [][\A t \in Hosts :
         (/\ TopIs(St, t, "flush")
          /\ Top(stack[t]).q # << >>
          /\ FlushStep(t)) =>
            interp[Head(Top(stack[t]).q).h].alloc = "live"]_vars

(***************************************************************************)
(* linc_advance step by step: the host thread reads s_dispatchInterp and   *)
(* h->pendingCb and copies the continuation, and then clears h->pendingCb  *)
(* and schedules the run. No lock is held between the two.                 *)
(***************************************************************************)
\* linc_advance up to `::Dynamic cb = ::Dynamic(h->pendingCb)`.
linc_advance_copy(S, t) ==
    LET h == S.s_dispatchInterp
        cb == IF h = Null THEN NoCb ELSE S.interp[h].pendingCb
    IN IF NothingPending(h, cb) THEN [S EXCEPT !.outcome = "nothing_pending"]
       ELSE PushFrame(S, t, [k |-> "advance", h |-> h, cb |-> cb])

\* linc_advance from `h->setPendingCallback(nullptr)` on.
linc_advance_run(S, t) ==
    LET f == Top(S.stack[t])
        S1 == Interpreter_setPendingCallback(PopFrame(S, t), f.h, NoCb)
        S2 == [S1 EXCEPT !.sessState[f.h] = "Running",
                         !.hist[f.h].ran = TRUE,
                         !.hist[f.h].handlers = 0]
    IN linc_Loreline_schedule(
           S2, t, [Task("run", f.h, Null) EXCEPT !.pos = f.cb], "none")

AdvanceCopy(t) ==
    /\ CanCallNested(t)
    /\ "advance" \in hostHas
    /\ ContinuationUsable
    /\ Commit(linc_advance_copy(CallPre(St), t))

AdvanceRun(t) ==
    /\ fatal = Null
    /\ TopIs(St, t, "advance")
    /\ Commit(linc_advance_run(St, t))

\* The host polls and its threads call the advance() a handler was given.
NextAdvance ==
    \/ \E t \in Hosts :
         \/ CallUpdate(t)
         \/ FlushStep(t)
         \/ HandlerReturn(t)
         \/ AdvanceCopy(t)
         \/ AdvanceRun(t)
    \/ \E w \in Workers :
         \/ WorkerTake(w)
         \/ WorkerRun(w)

SpecAdvance == InitPolling /\ [][NextAdvance]_vars

\* The runs of continuations scheduled on worker w and not started yet.
ScheduledRuns(w) ==
    {i \in DOMAIN taskQueue[w] : taskQueue[w][i].op = "run"}

\* C34: a pending continuation is run at most once: the worker's queue never
\* holds two runs of the same continuation of the same session.
C34_ContinuationScheduledOnce ==
    \A w \in Workers : \A i \in ScheduledRuns(w) : \A j \in ScheduledRuns(w) :
        (/\ taskQueue[w][i].h = taskQueue[w][j].h
         /\ taskQueue[w][i].pos = taskQueue[w][j].pos) => i = j

\* C35: with a worker active, a continuation whose run waits in the worker's
\* queue is still the pending continuation of its handle and is pinned by
\* the handle's continuation root.
C35_PinnedUntilRunStarts ==
    \A w \in Workers : \A i \in ScheduledRuns(w) :
        LET task == taskQueue[w][i]
        IN /\ interp[task.h].pendingCb = task.pos
           /\ <<task.h, "pendingCb">> \in roots

(***************************************************************************)
(* Blocking calls and shutdown: the host makes blocking calls and disposes *)
(* of the worker; the worker thread and the threads that wait for it keep  *)
(* running (the operating system schedules every runnable thread).         *)
(***************************************************************************)
WorkerStep ==
    \E w \in Workers :
        WorkerTake(w) \/ WorkerExit(w) \/ WorkerRun(w) \/ WorkerEnsure(w)

WakeStep == \E t \in Hosts : SyncReturn(t) \/ DisposeJoin(t)

NextShutdown ==
    \/ \E t \in Hosts :
         \/ CallInit(t)
         \/ CallDispose(t)
         \/ DisposeJoin(t)
         \/ SyncReturn(t)
    \/ \E w \in Workers :
         \/ WorkerTake(w)
         \/ WorkerExit(w)
         \/ WorkerRun(w)
         \/ WorkerEnsure(w)

SpecShutdown ==
    /\ InitWorker
    /\ [][NextShutdown]_vars
    /\ WF_vars(WorkerStep)
    /\ WF_vars(WakeStep)

\* Host thread t is blocked in scheduleSync.
Blocked(t) == TopIs(St, t, "wait")

\* C36: every blocking boundary call eventually returns, also when it races
\* with Loreline_dispose.
C36_BlockingCallReturns ==
    \A t \in Hosts : Blocked(t) ~> ~Blocked(t)

(***************************************************************************)
(* Calls made from inside handlers: the session of InitPolling is polled,  *)
(* its handlers save, start and advance the session, and the host may      *)
(* dispose of the worker, after which calls run inline.                    *)
(***************************************************************************)
NextNested ==
    \/ \E t \in Hosts :
         \/ CallUpdate(t)
         \/ FlushStep(t)
         \/ HandlerReturn(t)
         \/ CallSave(t)
         \/ CallAdvance(t)
         \/ SyncReturn(t)
         \/ CallDispose(t)
         \/ DisposeJoin(t)
    \/ \E w \in Workers :
         \/ WorkerTake(w)
         \/ WorkerExit(w)
         \/ WorkerRun(w)

SpecNested == InitPolling /\ [][NextNested]_vars

\* Host thread t is blocked in a call it made from inside a handler.
BlockedInHandler(t) ==
    /\ Blocked(t)
    /\ Len(stack[t]) >= 2
    /\ stack[t][Len(stack[t]) - 1].k = "handler"

\* C37: a blocking boundary call made from inside a handler completes: the
\* thread is never left waiting for an action that no thread will run, its
\* worker having left threadLoop for good.
C37_NestedCallCompletes ==
    \A t \in Hosts :
        (BlockedInHandler(t) /\ ~Top(stack[t]).done) =>
            wpc[Top(stack[t]).w] # "exited"

(***************************************************************************)
(* Sessions whose play can fail: the host starts the bridge in either      *)
(* mode, parses, plays a beat the script has or one it does not have, and  *)
(* uses the handle Loreline_play returned.                                 *)
(***************************************************************************)
\* The host calls Loreline_play with handlers and any beat name.
PlayAnyBeat(t) ==
    /\ CanCall(t)
    /\ ScriptKnown
    /\ \E h \in Handles :
         /\ interp[h].alloc = "none"
         /\ \E beat \in Beats \cup {MissingBeat} :
              Commit(Loreline_play(CallPre(St), t, "script", h, beat, TRUE))

\* The host makes all its calls from one thread, so that no call is refused
\* by the thread guard and every Loreline_play returns its handle.
MainThread == "T1"

NextPlay ==
    \/ \E t \in {MainThread} :
         \/ CallCreateThread(t)
         \/ ParseWith(t, "ok")
         \/ PlayAnyBeat(t)
         \/ CallStart(t)
         \/ CallSave(t)
         \/ CallUpdate(t)
         \/ FlushStep(t)
         \/ HandlerReturn(t)
         \/ EnsureStep(t)
         \/ SyncReturn(t)
    \/ \E w \in Workers :
         \/ WorkerTake(w)
         \/ WorkerRun(w)
         \/ WorkerEnsure(w)

SpecPlay == Init /\ [][NextPlay]_vars

\* C38: an operation issued on a handle that Loreline_play returned finds the
\* handle's engine object set when it executes: no lambda dereferences a
\* null interp->obj.
C38_ObjectSetWhenUsed ==
    outcome # "null_object" /\ fatal # "null_object"


(***************************************************************************)
(* The arrays the callback wrappers build, by value: what                  *)
(* linc_buildTextTags and linc_buildChoiceOptions store through their out  *)
(* parameters for a given Array<TextTag> or Array<ChoiceOption> of the     *)
(* engine. An engine String is [isNull, chars]; an engine array is         *)
(* [isNull, items] with items a sequence, item i of the code at i + 1.     *)
(***************************************************************************)
MaxList == 2

\* The terminator of a C string.
NUL == "NUL"

\* The engine's strings: null, or characters without a NUL (the engine's
\* text comes from the script source, which enters through
\* linc_toHxString and ends at the first NUL).
HxString(chars) == [isNull |-> FALSE, chars |-> chars]

HxNullString == [isNull |-> TRUE, chars |-> << >>]

TagValues == {HxNullString, HxString(<<"b">>), HxString(<<"i", "t">>)}

TagOffsets == {0, 3}

OptionTexts == {HxString(<<"y">>), HxString(<<"n", "o">>)}

\* ::String::c_str(): the characters followed by the terminator.
c_str(s) == s.chars \o << NUL >>

RECURSIVE strlen(_)
strlen(cstr) == IF Head(cstr) = NUL THEN 0 ELSE 1 + strlen(Tail(cstr))

\* Loreline_String() and Loreline_String(s, len): linc_createStringData
\* copies len characters and records len.
Loreline_String_null == [isNull |-> TRUE, data |-> << >>, len |-> 0]

Loreline_String_new(cstr, len) ==
    [isNull |-> FALSE, data |-> SubSeq(cstr, 1, len), len |-> len]

linc_hxToString(s) ==
    IF s.isNull
    THEN Loreline_String_null
    ELSE LET cstr == c_str(s) IN Loreline_String_new(cstr, strlen(cstr))

\* An engine array, null or of the given items.
HxArray(items) == [isNull |-> FALSE, items |-> items]

HxNullArray == [isNull |-> TRUE, items |-> << >>]

SeqsUpTo(S, n) == UNION {[1..k -> S] : k \in 0..n}

\* The engine's TextTag objects and the tag lists handed to linc_buildTextTags.
HxTags == [value : TagValues, offset : TagOffsets, closing : BOOLEAN]

HxTagLists == {HxNullArray} \cup {HxArray(l) : l \in SeqsUpTo(HxTags, MaxList)}

\* The tag lists an option carries: none, an empty one, one tag, and two tags
\* at the same offset.
OptionTagLists ==
    { HxNullArray,
      HxArray(<< >>),
      HxArray(<< [value |-> HxString(<<"b">>), offset |-> 0,
                  closing |-> FALSE] >>),
      HxArray(<< [value |-> HxString(<<"b">>), offset |-> 3,
                  closing |-> TRUE],
                 [value |-> HxString(<<"i", "t">>), offset |-> 3,
                  closing |-> FALSE] >>) }

HxOptions == [text : OptionTexts, enabled : BOOLEAN, tags : OptionTagLists]

HxOptionLists ==
    {HxNullArray} \cup {HxArray(l) : l \in SeqsUpTo(HxOptions, MaxList)}

\* arr->get_length() and arr->__get(i).
get_length(arr) == Len(arr.items)

hx_get(arr, i) == arr.items[i + 1]

\* The out parameters: *outTags (nullptr, or the array, indexed from 0) and
\* *outCount.
OutNull == [isNull |-> TRUE, elems |-> << >>, count |-> 0]

OutArray(elems, count) == [isNull |-> FALSE, elems |-> elems, count |-> count]

\* new Loreline_TextTag[count]: value is default-constructed, offset and
\* closing hold nothing until the loop writes them.
NewTextTag == [value |-> Loreline_String_null, offset |-> 0, closing |-> FALSE]

\* The loop of linc_buildTextTags from index i on.
RECURSIVE TextTagLoop(_, _, _)
TextTagLoop(arr, tags, i) ==
    IF i >= get_length(arr)
    THEN tags
    ELSE LET tag == hx_get(arr, i)
         IN TextTagLoop(arr,
                [tags EXCEPT ![i] = [value |-> linc_hxToString(tag.value),
                                     offset |-> tag.offset,
                                     closing |-> tag.closing]],
                i + 1)

linc_buildTextTags_out(hxTags) ==
    IF hxTags.isNull
    THEN OutNull
    ELSE LET count == get_length(hxTags)
         IN IF count = 0
            THEN OutNull
            ELSE OutArray(
                    TextTagLoop(hxTags, [i \in 0..(count - 1) |-> NewTextTag],
                                0),
                    count)

\* new Loreline_ChoiceOption[count].
NewChoiceOption ==
    [text |-> Loreline_String_null, enabled |-> FALSE, tags |-> OutNull,
     tagCount |-> 0]

\* The same loop with every disabled option left out.
RECURSIVE ChoiceOptionLoop_SkipDisabled(_, _, _, _)
ChoiceOptionLoop_SkipDisabled(arr, options, i, n) ==
    IF i >= get_length(arr)
    THEN [j \in 0..(n - 1) |-> options[j]]
    ELSE LET opt == hx_get(arr, i)
             tags == linc_buildTextTags_out(opt.tags)
         IN IF opt.enabled
            THEN ChoiceOptionLoop_SkipDisabled(arr,
                    [options EXCEPT ![n] = [text |-> linc_hxToString(opt.text),
                                            enabled |-> opt.enabled,
                                            tags |-> tags,
                                            tagCount |-> tags.count]],
                    i + 1, n + 1)
            ELSE ChoiceOptionLoop_SkipDisabled(arr, options, i + 1, n)

\* The loop of linc_buildChoiceOptions from index i on.
RECURSIVE ChoiceOptionLoop(_, _, _)
ChoiceOptionLoop(arr, options, i) ==
    IF i >= get_length(arr)
    THEN options
    ELSE LET opt == hx_get(arr, i)
             tags == linc_buildTextTags_out(opt.tags)
         IN ChoiceOptionLoop(arr,
                [options EXCEPT ![i] = [text |-> linc_hxToString(opt.text),
                                        enabled |-> opt.enabled,
                                        tags |-> tags,
                                        tagCount |-> tags.count]],
                i + 1)

linc_buildChoiceOptions_SkipDisabled(hxOptions) ==
    IF hxOptions.isNull
    THEN OutNull
    ELSE LET count == get_length(hxOptions)
             elems == ChoiceOptionLoop_SkipDisabled(hxOptions,
                          [i \in 0..(count - 1) |-> NewChoiceOption], 0, 0)
         IN IF count = 0
            THEN OutNull
            ELSE OutArray(elems, Cardinality(DOMAIN elems))

linc_buildChoiceOptions_out(hxOptions) ==
    IF hxOptions.isNull
    THEN OutNull
    ELSE LET count == get_length(hxOptions)
         IN IF count = 0
            THEN OutNull
            ELSE OutArray(
                    ChoiceOptionLoop(hxOptions,
                        [i \in 0..(count - 1) |-> NewChoiceOption], 0),
                    count)

\* No index has been passed to select.
NoSelection == -1

\* Nothing has been built yet.
NotBuilt == [done |-> FALSE, out |-> OutNull, selected |-> NoSelection]

\* The engine raises an event with any tag list, or a choice with any option
\* list.
InitBuild ==
    /\ BridgeInit
    /\ NoStrings
    /\ NoFiles
    /\ hxList \in {[kind |-> "tags", arr |-> a] : a \in HxTagLists}
                  \cup {[kind |-> "options", arr |-> a] : a \in HxOptionLists}
    /\ built = NotBuilt

\* _hx_Closure_dialogue and _hx_Closure_text build the event's tags.
BuildTags ==
    /\ hxList.kind = "tags"
    /\ ~built.done
    /\ built' = [done |-> TRUE, out |-> linc_buildTextTags_out(hxList.arr),
                 selected |-> NoSelection]
    /\ UNCHANGED << hxList, bridgeVars, stringVars, fileVars >>

\* _hx_Closure_choice builds the choice's options.
BuildOptions ==
    /\ hxList.kind = "options"
    /\ ~built.done
    /\ built' = [done |-> TRUE, out |-> linc_buildChoiceOptions_out(hxList.arr),
                 selected |-> NoSelection]
    /\ UNCHANGED << hxList, bridgeVars, stringVars, fileVars >>

\* The choice handler calls select with the index of an option it was given;
\* linc_select runs the engine's callback with that index.
SelectOption ==
    /\ hxList.kind = "options"
    /\ built.done
    /\ built.selected = NoSelection
    /\ \E index \in 0..(built.out.count - 1) :
           built' = [built EXCEPT !.selected = index]
    /\ UNCHANGED << hxList, bridgeVars, stringVars, fileVars >>

NextBuild == BuildTags \/ BuildOptions \/ SelectOption

SpecBuild == InitBuild /\ [][NextBuild]_vars

\* The string the host reads is the engine's string.
SameString(ls, hs) ==
    /\ ls.isNull = hs.isNull
    /\ ls.len = Len(hs.chars)
    /\ ls.data = hs.chars

\* The built tags are the engine's tags, one for one and in the same order.
SameTags(out, arr) ==
    IF arr.isNull \/ Len(arr.items) = 0
    THEN out.isNull /\ out.count = 0
    ELSE /\ ~out.isNull
         /\ out.count = Len(arr.items)
         /\ DOMAIN out.elems = 0..(out.count - 1)
         /\ \A i \in 0..(out.count - 1) :
                /\ SameString(out.elems[i].value, arr.items[i + 1].value)
                /\ out.elems[i].offset = arr.items[i + 1].offset
                /\ out.elems[i].closing = arr.items[i + 1].closing

SameOptions(out, arr) ==
    IF arr.isNull \/ Len(arr.items) = 0
    THEN out.isNull /\ out.count = 0
    ELSE /\ ~out.isNull
         /\ out.count = Len(arr.items)
         /\ DOMAIN out.elems = 0..(out.count - 1)
         /\ \A i \in 0..(out.count - 1) :
                /\ SameString(out.elems[i].text, arr.items[i + 1].text)
                /\ out.elems[i].enabled = arr.items[i + 1].enabled
                /\ out.elems[i].tagCount = out.elems[i].tags.count
                /\ SameTags(out.elems[i].tags, arr.items[i + 1].tags)

\* C39: linc_buildTextTags and linc_buildChoiceOptions give a null array and
\* count 0 for a null or empty engine list, and otherwise an array of the
\* list's length whose element i has the fields of the list's element i
\* (value, offset, closing; text, enabled, and the option's own tags), so
\* the engine's order is kept, same-offset tags and disabled options
\* included, and the index the handler passes to select is the option's
\* index in the engine's full list.
C39_BuiltArraysMirrorNativeLists ==
    built.done =>
        /\ hxList.kind = "tags" => SameTags(built.out, hxList.arr)
        /\ hxList.kind = "options" => SameOptions(built.out, hxList.arr)
        /\ built.selected # NoSelection =>
               /\ built.selected + 1 \in DOMAIN hxList.arr.items
               /\ SameString(built.out.elems[built.selected].text,
                             hxList.arr.items[built.selected + 1].text)

\* An option list whose first option is disabled and whose second carries two
\* tags at one offset has been built, and the second option selected.
C39_Witness ==
    /\ built.done
    /\ hxList.kind = "options"
    /\ built.out.count = 2
    /\ ~built.out.elems[0].enabled
    /\ built.out.elems[1].tagCount = 2
    /\ built.out.elems[1].tags.elems[0].offset
           = built.out.elems[1].tags.elems[1].offset
    /\ built.selected = 1


(***************************************************************************)
(* Loreline_update called with different deltas, on the worker             *)
(* configuration with one event waiting in the dispatch-out queue.         *)
(***************************************************************************)
UpdateDeltas == {5, 10}

UpdateWith(t, delta) ==
    /\ CanCallNested(t)
    /\ Commit(Loreline_update(CallPre(St), t, delta))

UpdateAny(t) == \E delta \in UpdateDeltas : UpdateWith(t, delta)

NextUpdate ==
    \/ \E t \in Hosts :
         \/ UpdateAny(t)
         \/ FlushStep(t)
         \/ HandlerReturn(t)
    \/ \E w \in Workers :
         \/ WorkerTake(w)
         \/ WorkerRun(w)

SpecUpdate == InitPolling /\ [][NextUpdate]_vars

\* This step appends a collection to the worker's queue.
GcQueued ==
    /\ nextId' = nextId + 1
    /\ thread' = thread
    /\ taskQueue'[thread] # << >>
    /\ LET task == taskQueue'[thread][Len(taskQueue'[thread])]
       IN task.op = "gc" /\ task.id = nextId

\* This step adds delta to the accumulator, and schedules a collection and
\* clears the accumulator exactly when the sum is 15 or more.
Accumulates(delta) ==
    IF gcAccum + delta >= 15
    THEN GcQueued /\ gcAccum' = 0
    ELSE nextId' = nextId /\ gcAccum' = gcAccum + delta

\* This step leaves the accumulator alone and schedules nothing.
NoAccumulation == nextId' = nextId /\ gcAccum' = gcAccum

\* C40: every Loreline_update(delta) runs the functions of the dispatch-out
\* queue first and only then adds delta to the accumulator; the call
\* schedules a collection exactly when the accumulator has then reached 15
\* or more, and resets it to 0, so the accumulator stays below 15 and no
\* collection is scheduled before 15 have accumulated since the last one.
C40_FlushThenAccumulate ==
    [][/\ gcAccum' < 15
       /\ \A t \in Hosts :
            /\ \A delta \in UpdateDeltas :
                 (calls' = calls + 1 /\ UpdateWith(t, delta)) =>
                     IF dispatchOutFunctions = << >>
                     THEN Accumulates(delta)
                     ELSE /\ NoAccumulation
                          /\ dispatchOutFunctions' = << >>
                          /\ TopIs(St', t, "flush")
                          /\ Top(stack'[t]).q = dispatchOutFunctions
                          /\ Top(stack'[t]).delta = delta
            /\ (TopIs(St, t, "flush") /\ FlushStep(t)) =>
                   IF Top(stack[t]).q = << >>
                   THEN Accumulates(Top(stack[t]).delta)
                   ELSE NoAccumulation
            /\ (calls' = calls /\ ~TopIs(St, t, "flush")) =>
                   (stack'[t] # stack[t] => NoAccumulation)]_vars

\* Three updates have returned, the waiting event has been delivered, and
\* the one collection scheduled so far left the accumulator at 0.
C40_Witness ==
    /\ calls = 3
    /\ nextId = 4
    /\ gcAccum = 0
    /\ dispatchOutFunctions = << >>
    /\ \A t \in Hosts : stack[t] = << >>
    /\ hist["h1"].handlers > 0

====
